---- MODULE Spec2Model ----
(***************************************************************************)
(* SDL_gpu_shadercross: the MSL resource-binding remapper and the          *)
(* translation routes of SDL_shadercross.c, in its three revisions:        *)
(*   "v1"  src/unnamed/part_002 lines 1654-2906 (TranslateFromSPIRV)       *)
(*   "v2"  src/unnamed/part_002 lines 1-1653    (round trip, remapper)     *)
(*   "v3"  src/unnamed/part_001 lines 1024-3109 (reflection, include dirs) *)
(***************************************************************************)
EXTENDS Integers, Sequences, FiniteSets, TLC

VARIABLES
    rev,          \* which revision of SDL_shadercross.c runs
    shaderStage,  \* SDL_ShaderCross_ShaderStage of the call
    resources,    \* the parsed module's reflected resources, grouped by kind
    pc,           \* "idle" before the call, "returned" after it
    msl_bindings, \* the spvc_msl_resource_binding records registered, in order
    num_textures, \* compute remapping: the texture counter when the call ends
    num_buffers,  \* compute remapping: the buffer counter when the call ends
    transpiled,   \* "none", "context" (a transpile context) or "NULL"
    op,           \* the public operation that was called, "none" before it
    entrypoint,   \* the entrypoint argument of the call
    env,          \* what the call runs against: device, loaded libraries, faults
    log,          \* the backend calls, allocations and frees the call made
    result,       \* what the call returned: "none", "NULL", "value" or "crash"
    objects,      \* the backend objects obtained and released, in order
    reflection,   \* what reflecting the module produced, "none" before it
    loader,       \* the library handles and entry points Init and Quit keep
    threads,      \* the translation and reflection calls in flight, by thread
    cli,          \* one run of the command-line tool: its arguments and exit
    dxcArgs,      \* the argument array CompileUsingDXC hands to the compiler
    spvc,         \* the SPIRV-Cross calls of one transpile and what they left
    metal         \* command-line runs targeting METALLIB and their directory

vars == <<rev, shaderStage, resources, pc, msl_bindings, num_textures,
          num_buffers, transpiled, op, entrypoint, env, log, result,
          objects, reflection, loader, threads, cli, dxcArgs, spvc, metal>>

remapVars == <<resources, msl_bindings, num_textures, num_buffers, transpiled>>

routeVars == <<op, entrypoint, env, log, result>>

backendVars == <<objects>>

reflectVars == <<reflection>>

loaderVars == <<loader>>

callVars == <<threads>>

cliVars == <<cli>>

argVars == <<dxcArgs>>

spvcVars == <<spvc>>

metalVars == <<metal>>

\* The values of the variables a specification does not use.
NoObjects == <<>>

NoReflection == [status |-> "none"]

NoLoader == [state |-> "none"]

NoThreads == <<>>

NoCli == [state |-> "none"]

NoArgs == <<>>

NoSpvc == [state |-> "none"]

NoMetal == [state |-> "none"]

(***************************************************************************)
(* Bounds of the model.                                                    *)
(***************************************************************************)
MaxRes == 2
MaxBinding == 1

(***************************************************************************)
(* Data.                                                                   *)
(***************************************************************************)
Stages == {"vertex", "fragment", "compute"}

RemapRevs == {"v2", "v3"}

Kinds == {"sampled_image", "separate_sampler", "storage_image",
          "storage_buffer", "uniform_buffer"}

KindRank(k) ==
    CASE k = "sampled_image" -> 1
      [] k = "separate_sampler" -> 2
      [] k = "storage_image" -> 3
      [] k = "storage_buffer" -> 4
      [] k = "uniform_buffer" -> 5

DescriptorSets == 0..3

\* A reflected resource: its kind, whether it carries both the DescriptorSet
\* and the Binding decoration, and their values (0 when undecorated).
Resource ==
    [kind : Kinds, dec : {TRUE}, set : DescriptorSets, binding : 0..MaxBinding]
    \cup [kind : Kinds, dec : {FALSE}, set : {0}, binding : {0}]

\* Value of a field of the binding struct that no statement has assigned yet.
Indeterminate == -1

\* spvc_resources_get_resource_list_for_type: the resources of one kind, in
\* the module's order.
ResourceList(kind) == SelectSeq(resources, LAMBDA r : r.kind = kind)

ExecutionModel(stage) ==
    IF stage = "vertex" THEN "Vertex"
    ELSE IF stage = "fragment" THEN "Fragment"
    ELSE "Kernel"

\* The list the texture-sampler loop walks: sampled images, and from v3 on the
\* separate samplers when the module has no sampled image.
TextureSamplerKind ==
    IF rev = "v3" /\ Len(ResourceList("sampled_image")) = 0
    THEN "separate_sampler"
    ELSE "sampled_image"

(***************************************************************************)
(* The MSL remapper of SDL_ShaderCross_INTERNAL_TranspileFromSPIRV.        *)
(***************************************************************************)
\* The six compute loops and the four graphics loops, in the order the
\* function runs them.
GraphicsPasses == <<"g_ts", "g_st", "g_sb", "g_ub">>

ComputePassesReadwriteFirst ==
    <<"c_ts", "c_rw_st", "c_ro_st", "c_ro_sb", "c_rw_sb", "c_ub">>

ComputePasses == <<"c_ts", "c_ro_st", "c_rw_st", "c_ro_sb", "c_rw_sb", "c_ub">>

\* The resource list a loop walks.
PassKind(pass) ==
    CASE pass \in {"g_ts", "c_ts"} -> TextureSamplerKind
      [] pass \in {"g_st", "c_ro_st", "c_rw_st"} -> "storage_image"
      [] pass \in {"g_sb", "c_ro_sb", "c_rw_sb"} -> "storage_buffer"
      [] pass \in {"g_ub", "c_ub"} -> "uniform_buffer"

\* The loops that test the decorations and the descriptor set of each entry;
\* the two readwrite loops rely on the readonly loop before them.
PassValidates(pass) == pass \notin {"c_rw_st", "c_rw_sb"}

GraphicsResourceSetAllowed(descriptor_set_index) ==
    descriptor_set_index = 0 \/ descriptor_set_index = 2

GraphicsUniformSetAllowed(descriptor_set_index) ==
    descriptor_set_index = 1 \/ descriptor_set_index = 3

ComputeSamplerSetAllowed(descriptor_set_index) == descriptor_set_index = 0

ComputeStorageSetAllowedUpToTwo(descriptor_set_index) ==
    descriptor_set_index <= 2

ComputeStorageSetAllowed(descriptor_set_index) ==
    descriptor_set_index = 0 \/ descriptor_set_index = 1

ComputeUniformSetAllowed(descriptor_set_index) == descriptor_set_index = 2

PassSetAllowed(pass, descriptor_set_index) ==
    CASE pass \in {"g_ts", "g_st", "g_sb"} ->
            GraphicsResourceSetAllowed(descriptor_set_index)
      [] pass = "g_ub" -> GraphicsUniformSetAllowed(descriptor_set_index)
      [] pass = "c_ts" -> ComputeSamplerSetAllowed(descriptor_set_index)
      [] pass \in {"c_ro_st", "c_ro_sb", "c_rw_st", "c_rw_sb"} ->
            ComputeStorageSetAllowed(descriptor_set_index)
      [] pass = "c_ub" -> ComputeUniformSetAllowed(descriptor_set_index)

\* "Skip readwrite ..." / "Skip readonly ...": the continue statements.
PassSkips(pass, descriptor_set_index) ==
    CASE pass \in {"c_ro_st", "c_ro_sb"} -> descriptor_set_index # 0
      [] pass \in {"c_rw_st", "c_rw_sb"} -> descriptor_set_index # 1
      [] OTHER -> FALSE

\* The Metal index each loop writes into the binding struct.
GraphicsTextureSamplerSlot(binding_index) == binding_index

GraphicsStorageTextureSlotNoOffset(num_texture_samplers, binding_index) ==
    binding_index

GraphicsStorageTextureSlot(num_texture_samplers, binding_index) ==
    num_texture_samplers + binding_index

GraphicsStorageBufferSlot(binding_index) == binding_index

GraphicsUniformBufferSlot(num_storage_buffers, binding_index) ==
    num_storage_buffers + binding_index

ComputeTextureSamplerSlot(textures) == textures

ComputeStorageTextureSlot(textures, binding_index) == textures + binding_index

ComputeReadonlyBufferSlot(binding_index) == binding_index

ComputeBufferSlot(buffers, binding_index) == buffers + binding_index

\* The assignments to the fields of `binding` in one loop body; the fields a
\* loop does not assign keep what an earlier iteration left there.
PassAssign(pass, cur, st, r, i, nts, nsb) ==
    LET base == [cur EXCEPT !.kind = r.kind, !.idx = i,
                            !.stage = ExecutionModel(shaderStage),
                            !.desc_set = r.set, !.binding = r.binding]
    IN  CASE pass = "g_ts" ->
                [base EXCEPT !.msl_texture = GraphicsTextureSamplerSlot(r.binding),
                             !.msl_sampler = GraphicsTextureSamplerSlot(r.binding)]
          [] pass = "g_st" ->
                [base EXCEPT !.msl_texture = GraphicsStorageTextureSlot(nts, r.binding)]
          [] pass = "g_sb" ->
                [base EXCEPT !.msl_buffer = GraphicsStorageBufferSlot(r.binding)]
          [] pass = "g_ub" ->
                [base EXCEPT !.msl_buffer = GraphicsUniformBufferSlot(nsb, r.binding)]
          [] pass = "c_ts" ->
                [base EXCEPT !.msl_texture = ComputeTextureSamplerSlot(st.T),
                             !.msl_sampler = ComputeTextureSamplerSlot(st.T)]
          [] pass \in {"c_ro_st", "c_rw_st"} ->
                [base EXCEPT !.msl_texture = ComputeStorageTextureSlot(st.T, r.binding)]
          [] pass = "c_ro_sb" ->
                [base EXCEPT !.msl_buffer = ComputeReadonlyBufferSlot(r.binding)]
          [] pass \in {"c_rw_sb", "c_ub"} ->
                [base EXCEPT !.msl_buffer = ComputeBufferSlot(st.B, r.binding)]

\* num_textures += 1 / num_buffers += 1 at the end of a compute loop body.
PassCounts(pass, st) ==
    CASE pass \in {"c_ts", "c_ro_st", "c_rw_st"} -> [st EXCEPT !.T = st.T + 1]
      [] pass \in {"c_ro_sb", "c_rw_sb", "c_ub"} -> [st EXCEPT !.B = st.B + 1]
      [] OTHER -> st

\* One iteration of a loop on entry i of its list.
PassBody(pass, st, r, i, nts, nsb) ==
    IF PassValidates(pass) /\ ~r.dec
    THEN [st EXCEPT !.ok = FALSE]
    ELSE IF PassValidates(pass) /\ ~PassSetAllowed(pass, r.set)
    THEN [st EXCEPT !.ok = FALSE]
    ELSE IF PassSkips(pass, r.set)
    THEN st
    ELSE LET b == PassAssign(pass, st.cur, st, r, i, nts, nsb)
         IN  PassCounts(pass, [st EXCEPT !.cur = b, !.regs = Append(st.regs, b)])

RECURSIVE PassLoop(_, _, _, _, _, _)
PassLoop(pass, st, list, i, nts, nsb) ==
    IF ~st.ok \/ i > Len(list)
    THEN st
    ELSE PassLoop(pass, PassBody(pass, st, list[i], i, nts, nsb), list, i + 1, nts, nsb)

RECURSIVE RunPasses(_, _, _)
RunPasses(passes, p, st) ==
    IF ~st.ok \/ p > Len(passes)
    THEN st
    ELSE RunPasses(passes, p + 1,
                   PassLoop(passes[p], st, ResourceList(PassKind(passes[p])), 1,
                            Len(ResourceList(TextureSamplerKind)),
                            Len(ResourceList("storage_buffer"))))

\* The locals of the remapping block before its first loop.
RemapStart ==
    [ok |-> TRUE, T |-> 0, B |-> 0, regs |-> <<>>,
     cur |-> [kind |-> "none", idx |-> 0, stage |-> "none",
              desc_set |-> Indeterminate, binding |-> Indeterminate,
              msl_texture |-> Indeterminate, msl_sampler |-> Indeterminate,
              msl_buffer |-> Indeterminate]]

RemapMSL ==
    RunPasses(IF shaderStage = "compute" THEN ComputePasses ELSE GraphicsPasses,
              1, RemapStart)

(***************************************************************************)
(* Specification of the remapper: a module and a stage are given, and      *)
(* SDL_ShaderCross_TranspileMSLFromSPIRV's transpile runs on them.         *)
(***************************************************************************)
KindSorted(s) ==
    \A i \in 1..(Len(s) - 1) : KindRank(s[i].kind) <= KindRank(s[i + 1].kind)

Modules ==
    UNION {{s \in [1..n -> Resource] : KindSorted(s)} : n \in 0..MaxRes}

InitRemap ==
    /\ rev \in RemapRevs
    /\ shaderStage \in Stages
    /\ resources \in Modules
    /\ pc = "idle"
    /\ msl_bindings = <<>>
    /\ num_textures = 0
    /\ num_buffers = 0
    /\ transpiled = "none"
    /\ op = "none"
    /\ entrypoint = "main"
    /\ env = [formats |-> {"MSL"}]
    /\ log = <<>>
    /\ result = [status |-> "none", buf |-> 0, origin |-> 0]
    /\ objects = NoObjects
    /\ reflection = NoReflection
    /\ loader = NoLoader
    /\ threads = NoThreads
    /\ cli = NoCli
    /\ dxcArgs = NoArgs
    /\ spvc = NoSpvc
    /\ metal = NoMetal

TranspileMSL ==
    /\ pc = "idle"
    /\ LET st == RemapMSL
       IN  /\ msl_bindings' = st.regs
           /\ num_textures' = st.T
           /\ num_buffers' = st.B
           /\ transpiled' = IF st.ok THEN "context" ELSE "NULL"
    /\ pc' = "returned"
    /\ UNCHANGED <<rev, shaderStage, resources>>
    /\ UNCHANGED routeVars
    /\ UNCHANGED <<objects, reflection, loader>>
    /\ UNCHANGED <<threads, cli, dxcArgs, spvc, metal>>

NextRemap == TranspileMSL

SpecRemap == InitRemap /\ [][NextRemap]_vars

(***************************************************************************)
(* Vocabulary of the remapping claims.                                     *)
(***************************************************************************)
\* The kinds the remapper lists, in the order it lists them.
ListedKinds == <<TextureSamplerKind, "storage_image", "storage_buffer", "uniform_buffer">>

IsListed(r) == \E k \in 1..4 : ListedKinds[k] = r.kind

\* The sets the convention gives a kind in a stage.
ConventionSets(stage, kind) ==
    IF stage = "compute"
    THEN CASE kind \in {"sampled_image", "separate_sampler"} -> {0}
           [] kind \in {"storage_image", "storage_buffer"} -> {0, 1}
           [] kind = "uniform_buffer" -> {2}
    ELSE CASE kind = "uniform_buffer" -> {1, 3}
           [] OTHER -> {0, 2}

ObeysConvention ==
    \A i \in 1..Len(resources) :
        resources[i].dec /\ resources[i].set \in ConventionSets(shaderStage, resources[i].kind)

Returned == pc = "returned"

TextureBound(b) == b.kind \in {"sampled_image", "separate_sampler", "storage_image"}

BufferBound(b) == b.kind \in {"storage_buffer", "uniform_buffer"}

\* Every listed resource has one registered binding, which carries its set
\* and binding, and nothing else is registered.
RegisteredOncePerResource ==
    /\ \A k \in 1..4 : \A i \in 1..Len(ResourceList(ListedKinds[k])) :
          Cardinality({j \in 1..Len(msl_bindings) :
                          msl_bindings[j].kind = ListedKinds[k] /\ msl_bindings[j].idx = i}) = 1
    /\ \A j \in 1..Len(msl_bindings) :
          LET b == msl_bindings[j]
          IN  /\ \E k \in 1..4 : ListedKinds[k] = b.kind
              /\ b.idx \in 1..Len(ResourceList(b.kind))
              /\ b.desc_set = ResourceList(b.kind)[b.idx].set
              /\ b.binding = ResourceList(b.kind)[b.idx].binding

\* C1: graphics remapping of a module that obeys the set convention gives
\* each texture-sampler msl_texture = msl_sampler = binding, each storage
\* texture msl_texture = N_ts + binding, each storage buffer msl_buffer =
\* binding and each uniform buffer msl_buffer = N_sb + binding.
C1_GraphicsRemap ==
    (Returned /\ shaderStage # "compute" /\ ObeysConvention) =>
        /\ transpiled = "context"
        /\ RegisteredOncePerResource
        /\ \A j \in 1..Len(msl_bindings) :
              LET b == msl_bindings[j]
                  N_ts == Len(ResourceList(TextureSamplerKind))
                  N_sb == Len(ResourceList("storage_buffer"))
              IN  /\ b.kind = TextureSamplerKind =>
                        b.msl_texture = b.binding /\ b.msl_sampler = b.binding
                  /\ b.kind = "storage_image" => b.msl_texture = N_ts + b.binding
                  /\ b.kind = "storage_buffer" => b.msl_buffer = b.binding
                  /\ b.kind = "uniform_buffer" => b.msl_buffer = N_sb + b.binding

C1_Witness ==
    /\ Returned /\ shaderStage = "fragment" /\ ObeysConvention
    /\ \E j \in 1..Len(msl_bindings) :
          msl_bindings[j].kind = "storage_image" /\ msl_bindings[j].msl_texture = 2

\* The pass of the compute remapper a registered binding belongs to.
ComputePassOf(b) ==
    CASE b.kind \in {"sampled_image", "separate_sampler"} -> 1
      [] b.kind = "storage_image" /\ b.desc_set = 0 -> 2
      [] b.kind = "storage_image" -> 3
      [] b.kind = "storage_buffer" /\ b.desc_set = 0 -> 4
      [] b.kind = "storage_buffer" -> 5
      [] b.kind = "uniform_buffer" -> 6

\* The counters before the j-th registration, when each starts at 0 and is
\* incremented once per resource visited.
TexturesBefore(j) == Cardinality({h \in 1..(j - 1) : TextureBound(msl_bindings[h])})

BuffersBefore(j) == Cardinality({h \in 1..(j - 1) : BufferBound(msl_bindings[h])})

\* C2: compute remapping runs its six passes in the fixed order, with T and
\* B starting at 0 and incremented once per resource visited: samplers get
\* msl_texture = msl_sampler = T, storage textures T + binding, readonly
\* storage buffers binding, readwrite storage and uniform buffers B + binding.
C2_ComputeRemap ==
    (Returned /\ shaderStage = "compute" /\ ObeysConvention) =>
        /\ transpiled = "context"
        /\ RegisteredOncePerResource
        /\ \A j \in 1..Len(msl_bindings) : \A h \in 1..(j - 1) :
              \/ ComputePassOf(msl_bindings[h]) < ComputePassOf(msl_bindings[j])
              \/ /\ ComputePassOf(msl_bindings[h]) = ComputePassOf(msl_bindings[j])
                 /\ msl_bindings[h].idx < msl_bindings[j].idx
        /\ \A j \in 1..Len(msl_bindings) :
              LET b == msl_bindings[j]
                  T == TexturesBefore(j)
                  B == BuffersBefore(j)
              IN  CASE ComputePassOf(b) = 1 -> b.msl_texture = T /\ b.msl_sampler = T
                    [] ComputePassOf(b) \in {2, 3} -> b.msl_texture = T + b.binding
                    [] ComputePassOf(b) = 4 -> b.msl_buffer = b.binding
                    [] ComputePassOf(b) \in {5, 6} -> b.msl_buffer = B + b.binding
        /\ num_textures = TexturesBefore(Len(msl_bindings) + 1)
        /\ num_buffers = BuffersBefore(Len(msl_bindings) + 1)

C2_Witness ==
    /\ Returned /\ shaderStage = "compute" /\ ObeysConvention
    /\ Len(msl_bindings) = 2
    /\ ComputePassOf(msl_bindings[1]) = 2 /\ ComputePassOf(msl_bindings[2]) = 3
    /\ msl_bindings[1].idx = 2
    /\ msl_bindings[2].msl_texture = 2

\* The Metal index spaces a registered binding occupies.
SameSpaceClash(a, b) ==
    \/ TextureBound(a) /\ TextureBound(b) /\ a.msl_texture = b.msl_texture
    \/ /\ a.kind \in {"sampled_image", "separate_sampler"}
       /\ b.kind \in {"sampled_image", "separate_sampler"}
       /\ a.msl_sampler = b.msl_sampler
    \/ BufferBound(a) /\ BufferBound(b) /\ a.msl_buffer = b.msl_buffer

DistinctPairs ==
    \A i, j \in 1..Len(resources) :
        i # j => <<resources[i].set, resources[i].binding>> #
                 <<resources[j].set, resources[j].binding>>

\* C3: after a successful remapping, two distinct resources in the same
\* Metal index space have different Metal indices, whenever the (set,
\* binding) pairs are distinct and obey the set convention.
C3_DistinctMetalIndices ==
    (Returned /\ transpiled = "context" /\ ObeysConvention /\ DistinctPairs) =>
        \A i, j \in 1..Len(msl_bindings) :
            i # j => ~SameSpaceClash(msl_bindings[i], msl_bindings[j])

\* The listed resources whose descriptor set is outside the allowed sets.
Offenders ==
    {i \in 1..Len(resources) :
        /\ IsListed(resources[i])
        /\ resources[i].dec
        /\ resources[i].set \notin ConventionSets(shaderStage, resources[i].kind)}

\* resources is grouped by kind in listing order, so a binding registered
\* for position h of the module precedes position i when h < i.
PositionOf(b) ==
    CHOOSE h \in 1..Len(resources) :
        /\ resources[h].kind = b.kind
        /\ Cardinality({g \in 1..h : resources[g].kind = b.kind}) = b.idx

\* C4: MSL transpilation returns no result, and registers no binding for
\* the offending resource or any resource after it, whenever a resource's
\* descriptor set is outside the sets allowed for its kind.
C4_InvalidSetFails ==
    (Returned /\ Offenders # {}) =>
        /\ transpiled = "NULL"
        /\ \A j \in 1..Len(msl_bindings) : \A i \in Offenders :
              PositionOf(msl_bindings[j]) < i

C4_Witness ==
    /\ Returned /\ shaderStage = "compute"
    /\ \E i \in Offenders : resources[i].kind = "storage_buffer" /\ resources[i].set = 2
    /\ transpiled = "NULL"
    /\ Len(msl_bindings) = 1

(***************************************************************************)
(* The translation routes: what one public operation does, backend call    *)
(* by backend call.  A run is the record [log, calls, crashed]; every      *)
(* operator below takes the run so far and returns the run after it,       *)
(* together with what the C function returns.                              *)
(***************************************************************************)
\* The most fallible backend calls one operation makes in any revision.
MaxFault == 14

RouteRevs == {"v1", "v2", "v3"}

\* SDL_GetGPUShaderFormats(device)
DeviceFormats ==
    {{}, {"SPIRV"}, {"DXBC"}, {"DXIL"}, {"MSL"}, {"DXBC", "DXIL"},
     {"DXIL", "MSL"}}

EntryNames == {"main", "vs_main"}

\* What a call runs against: the device's formats, whether SDL_D3DCompile
\* was loaded, whether SPIRV-Cross renames the entrypoint, whether the caller
\* gave an include directory, which fallible call fails (0: none), and what
\* the build does when the code reads through a null pointer.
Environments ==
    [formats : DeviceFormats, d3dcompile : BOOLEAN, renames : BOOLEAN,
     includeDir : BOOLEAN, failAt : 0..MaxFault, ub : {"crash", "garbage"}]

\* Pointers to text or bytecode: the buffer (the index of the allocation in
\* the log, 0 when the callee does not own it) and the backend call whose
\* output it holds (0: the caller's input).
NullPtr == [null |-> TRUE, buf |-> 0, origin |-> 0]

CallerPtr == [null |-> FALSE, buf |-> 0, origin |-> 0]

GarbagePtr == [null |-> FALSE, buf |-> 0, origin |-> Indeterminate]

\* One entry of the log: the call, the text or bytecode it was given (where
\* that came from, the buffer it is read from, and whether the pointer was
\* null), and its arguments.
Event(ev, what, ptr, entry, sm, spirv, ok) ==
    [ev |-> ev, what |-> what, src |-> ptr.origin, buf |-> ptr.buf,
     null |-> ptr.null, entry |-> entry, sm |-> sm, spirv |-> spirv,
     ok |-> ok]

Ref(index) == [null |-> FALSE, buf |-> 0, origin |-> index]

StartRun == [log |-> <<>>, calls |-> 0, crashed |-> FALSE]

\* Nothing happens after a crash.
Emit(st, e) == IF st.crashed THEN st ELSE [st EXCEPT !.log = Append(@, e)]

\* A backend call that can fail: it is counted, and it fails if it is the
\* call the environment breaks.
Step(st, ev, what, ptr, entry, sm, spirv) ==
    LET ok == (st.calls + 1 # env.failAt)
        counted == [st EXCEPT !.calls = @ + 1]
    IN  [st |-> Emit(counted, Event(ev, what, ptr, entry, sm, spirv, ok)),
         ok |-> ok,
         idx |-> Len(st.log) + 1]

SDL_malloc(st, what, origin) ==
    [st |-> Emit(st, Event("alloc", what, Ref(origin), "", 0, FALSE, TRUE)),
     ret |-> [null |-> FALSE, buf |-> Len(st.log) + 1, origin |-> origin]]

\* SDL_malloc and SDL_strlcpy of the text ptr points to.
CopyOf(st, what, ptr) ==
    [st |-> Emit(st, Event("alloc", what, ptr, "", 0, FALSE, TRUE)),
     ret |-> [null |-> FALSE, buf |-> Len(st.log) + 1, origin |-> ptr.origin]]

SDL_free(st, ptr) ==
    IF ptr.null THEN st
    ELSE Emit(st, Event("free", "", Ref(ptr.buf), "", 0, FALSE, TRUE))

\* Reading through a null or uninitialized pointer: the build crashes there
\* or goes on with whatever the read produced.
UndefinedRead(st, field) ==
    LET read == Emit(st, Event("undefined_read", field, NullPtr, "", 0, FALSE,
                               FALSE))
    IN  IF env.ub = "crash" THEN [read EXCEPT !.crashed = TRUE] ELSE read

DxcProfile(stage) ==
    IF stage = "vertex" THEN "vs_6_0"
    ELSE IF stage = "fragment" THEN "ps_6_0"
    ELSE "cs_6_0"

\* The statements after a call: v is evaluated once and K continues with
\* its value.
Bind(v, K(_)) == CHOOSE r \in {K(x) : x \in {v}} : TRUE

Ret(st, ret) == [st |-> st, ret |-> ret]

\* SDL_iconv_string of the entrypoint or the include directory.
Iconv(st, what) ==
    Bind(Step(st, "iconv", what, CallerPtr, "", 0, FALSE), LAMBDA conv :
        IF conv.ok THEN SDL_malloc(conv.st, what, 0)
        ELSE Ret(conv.st, NullPtr))

\* The -E argument: v1 hard-codes main, v2 passes the conversion unchecked.
DxcEntry(entryPointUtf16, entry) ==
    IF rev = "v1" THEN "main"
    ELSE IF entryPointUtf16.null THEN "NULL"
    ELSE entry

CompileUsingDXC(st, hlslSource, entry, includeDir, spirv) ==
    Bind(IF rev = "v2" THEN Iconv(st, "entryPointUtf16")
         ELSE Ret(st, NullPtr), LAMBDA early :
    Bind(Step(early.st, "DxcCreateInstance", "", CallerPtr, "", 0, FALSE),
         LAMBDA dxcInstance :
    IF ~dxcInstance.ok THEN Ret(dxcInstance.st, NullPtr) ELSE
    Bind(IF rev = "v3" THEN Iconv(dxcInstance.st, "entryPointUtf16")
         ELSE Ret(dxcInstance.st, early.ret), LAMBDA entryPointUtf16 :
    IF rev = "v3" /\ entryPointUtf16.ret.null
    THEN Ret(entryPointUtf16.st, NullPtr) ELSE
    Bind(IF rev = "v3" /\ includeDir
         THEN Iconv(entryPointUtf16.st, "includeDirUtf16")
         ELSE Ret(entryPointUtf16.st, NullPtr), LAMBDA includeDirUtf16 :
    IF rev = "v3" /\ includeDir /\ includeDirUtf16.ret.null
    THEN Ret(SDL_free(includeDirUtf16.st, entryPointUtf16.ret), NullPtr) ELSE
    Bind(Step(includeDirUtf16.st, "dxc", DxcProfile(shaderStage), hlslSource,
              DxcEntry(entryPointUtf16.ret, entry), 0, spirv), LAMBDA ret :
    Bind(SDL_free(ret.st, entryPointUtf16.ret), LAMBDA freed1 :
    Bind(SDL_free(freed1, includeDirUtf16.ret), LAMBDA freed :
    IF ~ret.ok THEN Ret(freed, NullPtr)
    ELSE SDL_malloc(freed, IF spirv THEN "spirv" ELSE "dxil", ret.idx))))))))

CompileSPIRVFromHLSL(st, hlslSource, entry, includeDir) ==
    CompileUsingDXC(st, hlslSource, entry, includeDir, TRUE)

\* spvc_compiler_get_cleansed_entry_point_name: "main" becomes "main0" on
\* MSL; any other renaming is the library's decision.
Cleanse(backend, name) ==
    IF backend = "MSL" /\ name = "main" THEN "main0"
    ELSE IF env.renames THEN name \o "0"
    ELSE name

NullContext == [null |-> TRUE, buf |-> 0, origin |-> 0, cleansed |-> "NULL"]

\* The transpile proper of v2 and v3: every failing SPIRV-Cross call destroys
\* the SPIRV-Cross context and returns NULL.
TranspileFromSPIRV(st, backend, shadermodel, code, entry) ==
    Bind(Step(st, "transpile", backend, code, entry,
              IF backend = "HLSL" THEN shadermodel ELSE 0, FALSE),
         LAMBDA compiled :
    IF ~compiled.ok THEN Ret(compiled.st, NullContext) ELSE
    Bind(SDL_malloc(compiled.st, "context", compiled.idx),
         LAMBDA transpileContext :
    Ret(transpileContext.st,
        [null |-> FALSE, buf |-> transpileContext.ret.buf,
         origin |-> compiled.idx, cleansed |-> Cleanse(backend, entry)])))

\* context->translated_source and context->cleansed_entrypoint
ReadContext(st, context, field) ==
    IF context.null
    THEN [st |-> UndefinedRead(st, field), source |-> GarbagePtr,
          cleansed |-> "garbage"]
    ELSE [st |-> st,
          source |-> [null |-> FALSE, buf |-> context.buf,
                      origin |-> context.origin],
          cleansed |-> context.cleansed]

DestroyTranspileContext(st, context) ==
    IF context.null THEN UndefinedRead(st, "context")
    ELSE SDL_free(st, context)

TranspileHLSLFromSPIRV(st, bytecode, entry, shaderModel) ==
    IF rev = "v2" /\ shaderModel \notin {"5_0", "6_0"}
    THEN Ret(st, NullPtr) ELSE
    Bind(TranspileFromSPIRV(st, "HLSL",
                            IF rev = "v3" THEN 60
                            ELSE IF shaderModel = "5_0" THEN 50
                            ELSE 60,
                            bytecode, entry), LAMBDA context :
    Bind(ReadContext(context.st, context.ret, "translated_source"),
         LAMBDA text :
    Bind(CopyOf(text.st, "hlsl_text", text.source), LAMBDA copy :
    Ret(DestroyTranspileContext(copy.st, context.ret), copy.ret))))

CompileDXILFromHLSL(st, hlslSource, entry, includeDir) ==
    IF rev = "v1"
    THEN CompileUsingDXC(st, hlslSource, entry, FALSE, FALSE) ELSE
    Bind(CompileSPIRVFromHLSL(st, hlslSource, entry, includeDir),
         LAMBDA spirv :
    IF spirv.ret.null THEN Ret(spirv.st, NullPtr) ELSE
    Bind(TranspileHLSLFromSPIRV(spirv.st, spirv.ret, entry, "6_0"),
         LAMBDA translatedSource :
    Bind(SDL_free(translatedSource.st, spirv.ret), LAMBDA freed :
    IF translatedSource.ret.null THEN Ret(freed, NullPtr)
    ELSE CompileUsingDXC(freed, translatedSource.ret, entry, includeDir,
                         FALSE))))

FxcProfile(stage) ==
    LET version == IF rev = "v3" THEN "_5_1" ELSE "_5_0"
    IN  IF stage = "vertex" THEN "vs" \o version
        ELSE IF stage = "fragment" THEN "ps" \o version
        ELSE "cs" \o version

\* v3 returns NULL when D3DCompile was not loaded; v1 and v2 call through
\* the null function pointer.
CompileDXBC(st, hlslSource, entry, shaderProfile) ==
    IF ~env.d3dcompile
    THEN Ret(IF rev = "v3" THEN st ELSE UndefinedRead(st, "SDL_D3DCompile"),
             NullPtr) ELSE
    Bind(Step(st, "fxc", shaderProfile, hlslSource, entry, 0, FALSE),
         LAMBDA ret :
    IF ~ret.ok THEN Ret(ret.st, NullPtr)
    ELSE Ret(ret.st, Ref(ret.idx)))

\* The legacy compile and the copy of its blob, after the optional round
\* trip; transpiledSource is NULL when there was none.
CompileDXBCAndCopy(st, hlslSource, transpiledSource, entry) ==
    Bind(CompileDXBC(st,
                     IF ~transpiledSource.null THEN transpiledSource
                     ELSE hlslSource,
                     entry, FxcProfile(shaderStage)), LAMBDA blob :
    IF blob.ret.null THEN Ret(blob.st, NullPtr) ELSE
    Bind(SDL_malloc(blob.st, "dxbc", blob.ret.origin), LAMBDA buffer :
    Ret(SDL_free(buffer.st, transpiledSource), buffer.ret)))

INTERNAL_CompileDXBCFromHLSL(st, hlslSource, entry, includeDir, enableRoundtrip) ==
    IF ~enableRoundtrip
    THEN CompileDXBCAndCopy(st, hlslSource, NullPtr, entry) ELSE
    Bind(CompileSPIRVFromHLSL(st, hlslSource, entry, includeDir),
         LAMBDA spirv :
    IF spirv.ret.null THEN Ret(spirv.st, NullPtr) ELSE
    Bind(TranspileHLSLFromSPIRV(spirv.st, spirv.ret, entry, "5_0"),
         LAMBDA transpiledSource :
    Bind(SDL_free(transpiledSource.st, spirv.ret), LAMBDA freed :
    IF transpiledSource.ret.null THEN Ret(freed, NullPtr)
    ELSE CompileDXBCAndCopy(freed, hlslSource, transpiledSource.ret, entry))))

\* v1 compiles the text it is given; v2 always round-trips; v3 round-trips
\* when the public function is called.
CompileDXBCFromHLSL(st, hlslSource, entry, includeDir) ==
    INTERNAL_CompileDXBCFromHLSL(st, hlslSource, entry, includeDir,
                                 rev # "v1")

TranspileShaderModel(targetFormat) ==
    IF targetFormat = "DXBC" THEN (IF rev = "v3" THEN 51 ELSE 50)
    ELSE IF targetFormat = "DXIL" THEN 60
    ELSE 0

Backend(targetFormat) == IF targetFormat = "MSL" THEN "MSL" ELSE "HLSL"

NullInfo ==
    [null |-> TRUE, buf |-> 0, origin |-> 0, entrypoint |-> NullPtr,
     code |-> NullPtr, cleansed |-> "NULL"]

\* v1: transpile and compile in one function, which returns a new create
\* info holding a copy of the cleansed entrypoint and the compiled code.
TranslateFromSPIRV(st, shaderFormat, code, entry) ==
    IF shaderFormat \notin {"DXBC", "DXIL", "MSL"}
    THEN Ret(st, NullInfo) ELSE
    Bind(Step(st, "transpile", Backend(shaderFormat), code, entry,
              TranspileShaderModel(shaderFormat), FALSE), LAMBDA compiled :
    IF ~compiled.ok THEN Ret(compiled.st, NullInfo) ELSE
    Bind(SDL_malloc(compiled.st, "createInfo", compiled.idx),
         LAMBDA newCreateInfo :
    Bind(SDL_malloc(newCreateInfo.st, "entrypoint", compiled.idx),
         LAMBDA name :
    Bind(IF shaderFormat = "DXBC"
         THEN CompileDXBCFromHLSL(name.st, Ref(compiled.idx),
                                  Cleanse("HLSL", entry), FALSE)
         ELSE IF shaderFormat = "DXIL"
         THEN CompileDXILFromHLSL(name.st, Ref(compiled.idx),
                                  Cleanse("HLSL", entry), FALSE)
         ELSE SDL_malloc(name.st, "msl_text", compiled.idx), LAMBDA bytes :
    Ret(bytes.st,
        [null |-> FALSE, buf |-> newCreateInfo.ret.buf,
         origin |-> compiled.idx, entrypoint |-> name.ret,
         code |-> bytes.ret,
         cleansed |-> Cleanse(Backend(shaderFormat), entry)])))))

\* v1: the bytecode functions read the create info without a null check.
CompileFromSPIRV_v1(st, format, bytecode, entry) ==
    Bind(TranslateFromSPIRV(st, format, bytecode, entry),
         LAMBDA translatedCreateInfo :
    IF translatedCreateInfo.ret.null
    THEN Bind(UndefinedRead(translatedCreateInfo.st, "translatedCreateInfo"),
              LAMBDA bad : Ret(SDL_free(bad, GarbagePtr), GarbagePtr))
    ELSE Bind(SDL_free(translatedCreateInfo.st,
                       translatedCreateInfo.ret.entrypoint), LAMBDA freed :
         Ret(SDL_free(freed, translatedCreateInfo.ret),
             translatedCreateInfo.ret.code)))

\* ReflectGraphicsSPIRV / ReflectComputeSPIRV (v3); the callers ignore what
\* they return.
Reflect(st, bytecode) == Step(st, "reflect", "", bytecode, "", 0, FALSE).st

\* SDL_CreateGPUShader / SDL_CreateGPUComputePipeline
CreateGPUShader(st, format, code, entry) ==
    Bind(Step(st, "create", format, code, entry, 0, FALSE), LAMBDA made :
    Ret(made.st, IF made.ok THEN Ref(made.idx) ELSE NullPtr))

\* v2 and v3: transpile, compile the translated text, create the shader.
CompileFromSPIRV(st, bytecode, entry, targetFormat) ==
    IF targetFormat \notin {"DXBC", "DXIL", "MSL"}
    THEN Ret(st, NullPtr) ELSE
    Bind(TranspileFromSPIRV(st, Backend(targetFormat),
                            TranspileShaderModel(targetFormat), bytecode,
                            entry), LAMBDA transpileContext :
    Bind(IF rev = "v3" THEN Reflect(transpileContext.st, bytecode)
         ELSE transpileContext.st, LAMBDA reflected :
    Bind(ReadContext(reflected, transpileContext.ret, "cleansed_entrypoint"),
         LAMBDA text :
    Bind(IF targetFormat = "DXBC"
         THEN INTERNAL_CompileDXBCFromHLSL(text.st, text.source,
                                           text.cleansed, FALSE, rev = "v2")
         ELSE IF targetFormat = "DXIL"
         THEN CompileDXILFromHLSL(text.st, text.source, text.cleansed, FALSE)
         ELSE Ret(text.st, text.source), LAMBDA code :
    Bind(CreateGPUShader(code.st, targetFormat, code.ret, text.cleansed),
         LAMBDA shaderObject :
    Ret(DestroyTranspileContext(shaderObject.st, transpileContext.ret),
        shaderObject.ret))))))

TranspileMSLFromSPIRVDestroysFirst(st, bytecode, entry) ==
    IF rev = "v1" THEN CompileFromSPIRV_v1(st, "MSL", bytecode, entry) ELSE
    Bind(TranspileFromSPIRV(st, "MSL", 0, bytecode, entry), LAMBDA context :
    Bind(ReadContext(context.st, context.ret, "translated_source"),
         LAMBDA text :
    Bind(DestroyTranspileContext(text.st, context.ret), LAMBDA destroyed :
    CopyOf(destroyed, "msl_text", text.source))))

TranspileMSLFromSPIRV(st, bytecode, entry) ==
    IF rev = "v1" THEN CompileFromSPIRV_v1(st, "MSL", bytecode, entry) ELSE
    Bind(TranspileFromSPIRV(st, "MSL", 0, bytecode, entry), LAMBDA context :
    Bind(ReadContext(context.st, context.ret, "translated_source"),
         LAMBDA text :
    Bind(CopyOf(text.st, "msl_text", text.source), LAMBDA copy :
    Ret(DestroyTranspileContext(copy.st, context.ret), copy.ret))))

CompileDXBCFromSPIRV(st, bytecode, entry) ==
    IF rev = "v1" THEN CompileFromSPIRV_v1(st, "DXBC", bytecode, entry) ELSE
    Bind(TranspileFromSPIRV(st, "HLSL", TranspileShaderModel("DXBC"),
                            bytecode, entry), LAMBDA context :
    Bind(ReadContext(context.st, context.ret, "translated_source"),
         LAMBDA text :
    Bind(INTERNAL_CompileDXBCFromHLSL(text.st, text.source, text.cleansed,
                                      FALSE, rev = "v2"), LAMBDA compiled :
    Ret(DestroyTranspileContext(compiled.st, context.ret), compiled.ret))))

CompileDXILFromSPIRV(st, bytecode, entry) ==
    IF rev = "v1" THEN CompileFromSPIRV_v1(st, "DXIL", bytecode, entry) ELSE
    Bind(TranspileFromSPIRV(st, "HLSL", 60, bytecode, entry),
         LAMBDA context :
    Bind(ReadContext(context.st, context.ret, "translated_source"),
         LAMBDA text :
    Bind(CompileDXILFromHLSL(text.st, text.source, text.cleansed, FALSE),
         LAMBDA compiled :
    Ret(DestroyTranspileContext(compiled.st, context.ret), compiled.ret))))

TargetFormatDxilFirst ==
    IF "DXIL" \in env.formats THEN "DXIL"
    ELSE IF "DXBC" \in env.formats THEN "DXBC"
    ELSE IF "MSL" \in env.formats THEN "MSL"
    ELSE "none"

\* The format the runtime construction translates SPIR-V to, "none" when
\* the device takes none of them.
TargetFormat ==
    IF rev = "v3"
    THEN IF "MSL" \in env.formats THEN "MSL"
         ELSE IF "DXBC" \in env.formats /\ env.d3dcompile THEN "DXBC"
         ELSE IF "DXIL" \in env.formats THEN "DXIL"
         ELSE "none"
    ELSE IF "DXBC" \in env.formats THEN "DXBC"
         ELSE IF "DXIL" \in env.formats THEN "DXIL"
         ELSE IF "MSL" \in env.formats THEN "MSL"
         ELSE "none"

\* v1: createInfo is declared and passed on without ever being assigned.
CreateShaderFromSPIRV_v1(st) ==
    Bind(UndefinedRead(st, "createInfo"), LAMBDA uninit :
    Bind(TranslateFromSPIRV(uninit, TargetFormat, GarbagePtr, "garbage"),
         LAMBDA translatedCreateInfo :
    Bind(CreateGPUShader(translatedCreateInfo.st, TargetFormat,
                         translatedCreateInfo.ret.code,
                         translatedCreateInfo.ret.cleansed),
         LAMBDA compiledResult :
    IF translatedCreateInfo.ret.null
    THEN Bind(UndefinedRead(compiledResult.st, "translatedCreateInfo"),
              LAMBDA bad :
         Bind(SDL_free(bad, GarbagePtr), LAMBDA freed :
         Ret(SDL_free(freed, GarbagePtr), compiledResult.ret)))
    ELSE Bind(SDL_free(compiledResult.st,
                       translatedCreateInfo.ret.entrypoint), LAMBDA freed1 :
         Bind(SDL_free(freed1, translatedCreateInfo.ret.code),
              LAMBDA freed2 :
         Ret(SDL_free(freed2, translatedCreateInfo.ret),
             compiledResult.ret))))))

CreateShaderFromSPIRV(st, bytecode, entry) ==
    IF "SPIRV" \in env.formats
    THEN Bind(IF rev = "v3" THEN Reflect(st, bytecode) ELSE st,
              LAMBDA reflected :
         CreateGPUShader(reflected, "SPIRV", bytecode, entry))
    ELSE IF TargetFormat = "none" THEN Ret(st, NullPtr)
    ELSE IF rev = "v1" THEN CreateShaderFromSPIRV_v1(st)
    ELSE CompileFromSPIRV(st, bytecode, entry, TargetFormat)

\* v1 and v2: compile for the device's format, create, free the bytecode.
CreateShaderFromDXBC(st, hlslSource, entry) ==
    Bind(CompileDXBCFromHLSL(st, hlslSource, entry, FALSE), LAMBDA bytecode :
    IF bytecode.ret.null THEN Ret(bytecode.st, NullPtr) ELSE
    Bind(CreateGPUShader(bytecode.st, "DXBC", bytecode.ret, entry),
         LAMBDA made :
    Ret(SDL_free(made.st, bytecode.ret), made.ret)))

CreateShaderFromDXC(st, hlslSource, entry, spirv) ==
    Bind(IF rev = "v2" /\ ~spirv
         THEN CompileDXILFromHLSL(st, hlslSource, entry, FALSE)
         ELSE CompileUsingDXC(st, hlslSource, entry, FALSE, spirv),
         LAMBDA bytecode :
    IF bytecode.ret.null THEN Ret(bytecode.st, NullPtr) ELSE
    Bind(CreateGPUShader(bytecode.st, IF spirv THEN "SPIRV" ELSE "DXIL",
                         bytecode.ret, entry), LAMBDA made :
    Ret(SDL_free(made.st, bytecode.ret), made.ret)))

CreateShaderFromHLSL(st, hlslSource, entry, includeDir) ==
    IF rev = "v3"
    THEN Bind(CompileSPIRVFromHLSL(st, hlslSource, entry, includeDir),
              LAMBDA spirv :
         IF spirv.ret.null THEN Ret(spirv.st, NullPtr) ELSE
         Bind(CreateShaderFromSPIRV(spirv.st, spirv.ret, entry),
              LAMBDA made :
         Ret(SDL_free(made.st, spirv.ret), made.ret)))
    ELSE IF "DXBC" \in env.formats
         THEN CreateShaderFromDXBC(st, hlslSource, entry)
    ELSE IF "DXIL" \in env.formats
         THEN CreateShaderFromDXC(st, hlslSource, entry, FALSE)
    ELSE IF "SPIRV" \in env.formats
         THEN CreateShaderFromDXC(st, hlslSource, entry, TRUE)
    ELSE Ret(st, NullPtr)

(***************************************************************************)
(* Specification of the routes: a revision, a stage, an entrypoint and an  *)
(* environment are given, and one public operation is called.              *)
(***************************************************************************)
NoResult == [status |-> "none", buf |-> 0, origin |-> 0]

InitRoute ==
    /\ rev \in RouteRevs
    /\ shaderStage \in Stages
    /\ resources = <<>>
    /\ pc = "idle"
    /\ msl_bindings = <<>>
    /\ num_textures = 0
    /\ num_buffers = 0
    /\ transpiled = "none"
    /\ op = "none"
    /\ entrypoint \in EntryNames
    /\ env \in Environments
    /\ log = <<>>
    /\ result = NoResult
    /\ objects = NoObjects
    /\ reflection = NoReflection
    /\ loader = NoLoader
    /\ threads = NoThreads
    /\ cli = NoCli
    /\ dxcArgs = NoArgs
    /\ spvc = NoSpvc
    /\ metal = NoMetal

\* The call returns (or the process dies in it): the log and the result.
Return(name, call) ==
    /\ pc = "idle"
    /\ pc' = "returned"
    /\ op' = name
    /\ \E run \in {call} :
          /\ log' = run.st.log
          /\ result' = [status |-> IF run.st.crashed THEN "crash"
                                   ELSE IF run.ret.null THEN "NULL"
                                   ELSE "value",
                        buf |-> run.ret.buf, origin |-> run.ret.origin]
    /\ UNCHANGED <<rev, shaderStage, entrypoint, env>>
    /\ UNCHANGED remapVars
    /\ UNCHANGED <<objects, reflection, loader>>
    /\ UNCHANGED <<threads, cli, dxcArgs, spvc, metal>>

CallCompileSPIRVFromHLSL ==
    Return("CompileSPIRVFromHLSL",
           CompileSPIRVFromHLSL(StartRun, CallerPtr, entrypoint,
                                env.includeDir))

CallCompileDXILFromHLSL ==
    Return("CompileDXILFromHLSL",
           CompileDXILFromHLSL(StartRun, CallerPtr, entrypoint,
                               env.includeDir))

CallCompileDXBCFromHLSL ==
    Return("CompileDXBCFromHLSL",
           CompileDXBCFromHLSL(StartRun, CallerPtr, entrypoint,
                               env.includeDir))

CallTranspileMSLFromSPIRV ==
    Return("TranspileMSLFromSPIRV",
           TranspileMSLFromSPIRV(StartRun, CallerPtr, entrypoint))

CallTranspileHLSLFromSPIRV ==
    /\ rev # "v1"
    /\ \E shaderModel \in {"5_0", "6_0", "other"} :
          Return("TranspileHLSLFromSPIRV",
                 TranspileHLSLFromSPIRV(StartRun, CallerPtr, entrypoint,
                                        shaderModel))

CallCompileDXBCFromSPIRV ==
    Return("CompileDXBCFromSPIRV",
           CompileDXBCFromSPIRV(StartRun, CallerPtr, entrypoint))

CallCompileDXILFromSPIRV ==
    Return("CompileDXILFromSPIRV",
           CompileDXILFromSPIRV(StartRun, CallerPtr, entrypoint))

CallCreateShaderFromSPIRV ==
    Return("CreateShaderFromSPIRV",
           CreateShaderFromSPIRV(StartRun, CallerPtr, entrypoint))

CallCreateShaderFromHLSL ==
    Return("CreateShaderFromHLSL",
           CreateShaderFromHLSL(StartRun, CallerPtr, entrypoint,
                                env.includeDir))

NextRoute ==
    \/ CallCompileSPIRVFromHLSL
    \/ CallCompileDXILFromHLSL
    \/ CallCompileDXBCFromHLSL
    \/ CallTranspileMSLFromSPIRV
    \/ CallTranspileHLSLFromSPIRV
    \/ CallCompileDXBCFromSPIRV
    \/ CallCompileDXILFromSPIRV
    \/ CallCreateShaderFromSPIRV
    \/ CallCreateShaderFromHLSL

SpecRoute == InitRoute /\ [][NextRoute]_vars

(***************************************************************************)
(* Vocabulary of the route claims.                                         *)
(***************************************************************************)
Called(name) == pc = "returned" /\ op = name

AnyCalled == pc = "returned" /\ op # "none"

\* The backend steps of a route, in the order they ran.
BackendSteps ==
    SelectSeq(log, LAMBDA e : e.ev \in {"transpile", "dxc", "fxc"})

IsTranspileToHLSL(e) == e.ev = "transpile" /\ e.what = "HLSL"

StagePrefix ==
    IF shaderStage = "vertex" THEN "vs"
    ELSE IF shaderStage = "fragment" THEN "ps"
    ELSE "cs"

\* C5: from SPIR-V, the route to DXBC is a transpile to HLSL then one legacy
\* compile, and the route to DXIL is a transpile to HLSL with shader model 60
\* then one HLSL compile without -spirv; nothing compiles back to SPIR-V or
\* transpiles again.
C5_SpirvRoutesDoNotRoundTrip ==
    /\ Called("CompileDXBCFromSPIRV") =>
          /\ Len(BackendSteps) <= 2
          /\ Len(BackendSteps) >= 1 => IsTranspileToHLSL(BackendSteps[1])
          /\ Len(BackendSteps) = 2 => BackendSteps[2].ev = "fxc"
    /\ Called("CompileDXILFromSPIRV") =>
          /\ Len(BackendSteps) <= 2
          /\ Len(BackendSteps) >= 1 =>
                IsTranspileToHLSL(BackendSteps[1]) /\ BackendSteps[1].sm = 60
          /\ Len(BackendSteps) = 2 =>
                BackendSteps[2].ev = "dxc" /\ ~BackendSteps[2].spirv

\* The device of the runtime construction takes DXIL only.
DxilDevice == env.formats = {"DXIL"}

\* An HLSL-to-DXIL translation in which every call succeeded.
TranslatedHLSLToDXIL ==
    /\ \/ Called("CompileDXILFromHLSL")
       \/ Called("CreateShaderFromHLSL") /\ DxilDevice
    /\ result.status = "value"
    /\ \A i \in 1..Len(log) : log[i].ok

\* The call e was given the output of an earlier call of the kind ev.
ProducedBy(e, ev) ==
    ~e.null /\ e.src \in 1..Len(log) /\ log[e.src].ev = ev

\* C6: every HLSL-to-DXIL translation compiles the caller's HLSL with -spirv,
\* transpiles that SPIR-V to HLSL and compiles that text to DXIL, in this
\* order, and never compiles the caller's text to DXIL.
C6_DxilRoundTripsThroughSpirv ==
    TranslatedHLSLToDXIL =>
        /\ \E i, j, k \in 1..Len(log) :
              /\ i < j /\ j < k
              /\ log[i].ev = "dxc" /\ log[i].spirv /\ log[i].src = 0
              /\ IsTranspileToHLSL(log[j]) /\ ProducedBy(log[j], "dxc")
              /\ log[k].ev = "dxc" /\ ~log[k].spirv
              /\ ProducedBy(log[k], "transpile")
        /\ \A k \in 1..Len(log) :
              log[k].ev = "dxc" /\ ~log[k].spirv => log[k].src # 0

\* C7: in the HLSL-to-DXBC route the transpile is given shader model 50 and
\* the legacy compile a shader-model-5 profile of the call's stage.
C7_DxbcRouteUsesShaderModel5 ==
    Called("CompileDXBCFromHLSL") =>
        \A i \in 1..Len(log) :
            /\ log[i].ev = "transpile" => log[i].sm = 50
            /\ log[i].ev = "fxc" =>
                  log[i].what \in {StagePrefix \o "_5_0", StagePrefix \o "_5_1"}

\* C8: a backend compile that consumes the text a transpile produced is given
\* the cleansed entrypoint of that transpile.
C8_CleansedEntrypointDownstream ==
    AnyCalled =>
        \A i, k \in 1..Len(log) :
            /\ log[k].ev = "transpile"
            /\ log[i].ev \in {"dxc", "fxc"}
            /\ ~log[i].null /\ log[i].src = k
            => log[i].entry = Cleanse(log[k].what, log[k].entry)

FailedStep(i) ==
    log[i].ev \in {"transpile", "dxc", "fxc", "reflect"} /\ ~log[i].ok

\* C9: when a transpile, compile or reflect step fails the operation returns
\* NULL, reads nothing through the null pointer the step left, and does not
\* call the device's create function afterwards.
C9_FailuresReturnNull ==
    AnyCalled =>
        \A i \in 1..Len(log) :
            FailedStep(i) =>
                /\ result.status = "NULL"
                /\ \A j \in (i + 1)..Len(log) :
                      log[j].ev \notin {"undefined_read", "create"}

IntermediateKinds ==
    {"spirv", "hlsl_text", "entryPointUtf16", "includeDirUtf16"}

FreesOf(i) == {j \in 1..Len(log) : log[j].ev = "free" /\ log[j].src = i}

\* C10: when the operation returns, every intermediate buffer it allocated
\* has been freed exactly once, and the buffer it returns has not been freed.
C10_IntermediateBuffersFreedOnce ==
    AnyCalled /\ result.status # "crash" =>
        \A i \in 1..Len(log) :
            log[i].ev = "alloc" =>
                IF result.status = "value" /\ result.buf = i
                THEN FreesOf(i) = {}
                ELSE log[i].what \in IntermediateKinds =>
                         Cardinality(FreesOf(i)) = 1

(***************************************************************************)
(* The backend objects of one call: the COM objects of the HLSL compiler   *)
(* and of the legacy compiler, and the SPIRV-Cross context.  The variable  *)
(* objects lists what the call obtained and what it released, in order.    *)
(***************************************************************************)
\* What the HLSL compiler does in one call of CompileUsingDXC: which
\* instances it creates, whether the conversions succeed, what Compile
\* returns, whether the error blob is NULL, empty or a message, and
\* whether the object blob can be fetched.
DxcOutcomes ==
    [lib : {"dxc"}, includeDir : BOOLEAN, instance : BOOLEAN,
     utils : BOOLEAN, handler : BOOLEAN, entryConv : BOOLEAN,
     includeConv : BOOLEAN, compile : {"ok", "failed", "no_result"},
     errors : {"NULL", "empty", "text"}, blob : BOOLEAN]

\* What D3DCompile does: whether it succeeds and whether it hands back an
\* error blob (a failure always comes with its message).
FxcOutcomes ==
    {o \in [lib : {"fxc"}, compile : BOOLEAN, errorBlob : BOOLEAN] :
        ~o.compile => o.errorBlob}

\* The SPIRV-Cross call that fails, counted from spvc_context_create (0: none).
SpvcCalls == 6

SpvcOutcomes == [lib : {"spvc"}, failAt : 0..SpvcCalls]

Obtain(obj) == <<[act |-> "obtain", obj |-> obj]>>

\* Release() on each of the objects, in the order the code calls it.
Release(held) ==
    [i \in 1..Len(held) |-> [act |-> "release", obj |-> held[i]]]

\* IDxcCompiler3::Compile to the return: held is what the function releases
\* on every path from here (the instance, from v3 on the utils too).
CompileAndFetch(out, held, releasesBlob) ==
    IF out.compile # "ok" THEN Release(held)
    ELSE Obtain("dxcResult")
         \o (IF out.errors # "NULL" THEN Obtain("errors") ELSE <<>>)
         \o (IF out.errors = "text" \/ ~out.blob
             THEN Release(<<"dxcResult">> \o held)
             ELSE Obtain("blob")
                  \o (IF releasesBlob THEN Release(<<"blob">>) ELSE <<>>)
                  \o Release(<<"dxcResult">> \o held))

\* SDL_ShaderCross_INTERNAL_CompileUsingDXC, its COM objects only.
CompileUsingDXCObjects(out) ==
    IF rev # "v3"
    THEN IF ~out.instance THEN <<>>
         ELSE Obtain("dxcInstance")
              \o CompileAndFetch(out, <<"dxcInstance">>, FALSE)
    ELSE (IF out.instance THEN Obtain("dxcInstance") ELSE <<>>)
         \o (IF out.utils THEN Obtain("utils") ELSE <<>>)
         \o (IF ~out.instance THEN <<>>
             ELSE IF ~out.utils THEN Release(<<"dxcInstance">>)
             ELSE IF ~out.handler THEN Release(<<"dxcInstance", "utils">>)
             ELSE Obtain("includeHandler")
                  \o (IF ~out.entryConv
                         \/ (out.includeDir /\ ~out.includeConv)
                      THEN Release(<<"dxcInstance", "utils">>)
                      ELSE CompileAndFetch(out, <<"dxcInstance", "utils">>,
                                           TRUE)))

\* SDL_ShaderCross_INTERNAL_CompileDXBC and the copy its caller makes of the
\* blob, with D3DCompile loaded.
CompileDXBCObjects(out) ==
    (IF out.errorBlob THEN Obtain("errorBlob") ELSE <<>>)
    \o (IF out.compile THEN Obtain("blob") \o Release(<<"blob">>) ELSE <<>>)

\* The SPIRV-Cross context of a transpile or a reflection: a failing
\* spvc_context_create gives none, every later failure destroys it, and so
\* does the end of the function (DestroyTranspileContext after a transpile
\* of v2 and v3).
SpvcContextObjects(out) ==
    IF out.failAt = 1 THEN <<>>
    ELSE Obtain("context") \o Release(<<"context">>)

InitBackend ==
    /\ rev \in RouteRevs
    /\ shaderStage \in Stages
    /\ resources = <<>>
    /\ pc = "idle"
    /\ msl_bindings = <<>>
    /\ num_textures = 0
    /\ num_buffers = 0
    /\ transpiled = "none"
    /\ op = "none"
    /\ entrypoint = "main"
    /\ env \in DxcOutcomes \cup FxcOutcomes \cup SpvcOutcomes
    /\ log = <<>>
    /\ result = NoResult
    /\ objects = NoObjects
    /\ reflection = NoReflection
    /\ loader = NoLoader
    /\ threads = NoThreads
    /\ cli = NoCli
    /\ dxcArgs = NoArgs
    /\ spvc = NoSpvc
    /\ metal = NoMetal

BackendReturn(name, obtainedAndReleased) ==
    /\ pc = "idle"
    /\ pc' = "returned"
    /\ op' = name
    /\ objects' = obtainedAndReleased
    /\ UNCHANGED <<rev, shaderStage, entrypoint, env, log, result>>
    /\ UNCHANGED remapVars
    /\ UNCHANGED <<reflection, loader>>
    /\ UNCHANGED <<threads, cli, dxcArgs, spvc, metal>>

BackendCompileUsingDXC ==
    /\ env.lib = "dxc"
    /\ BackendReturn("CompileUsingDXC", CompileUsingDXCObjects(env))

BackendCompileDXBC ==
    /\ env.lib = "fxc"
    /\ BackendReturn("CompileDXBC", CompileDXBCObjects(env))

BackendTranspile ==
    /\ env.lib = "spvc"
    /\ BackendReturn("TranspileFromSPIRV", SpvcContextObjects(env))

BackendReflect ==
    /\ env.lib = "spvc"
    /\ rev = "v3"
    /\ BackendReturn("ReflectSPIRV", SpvcContextObjects(env))

NextBackend ==
    \/ BackendCompileUsingDXC
    \/ BackendCompileDXBC
    \/ BackendTranspile
    \/ BackendReflect

SpecBackend == InitBackend /\ [][NextBackend]_vars

CountOf(act, obj) ==
    Cardinality({i \in 1..Len(objects) :
                    objects[i].act = act /\ objects[i].obj = obj})

BackendObjects ==
    {"dxcInstance", "utils", "includeHandler", "dxcResult", "errors", "blob",
     "errorBlob", "context"}

\* C11: when an HLSL compile, a legacy compile, a transpile or a reflection
\* has returned, every backend object the call obtained has been released,
\* once.
C11_BackendObjectsReleased ==
    pc = "returned" =>
        \A obj \in BackendObjects :
            CountOf("release", obj) = CountOf("obtain", obj)

(***************************************************************************)
(* Reflection (v3): SDL_ShaderCross_INTERNAL_ReflectGraphicsSPIRV and      *)
(* SDL_ShaderCross_INTERNAL_ReflectComputeSPIRV fill the resource counts   *)
(* of a create info from the module's resource lists.                      *)
(***************************************************************************)
\* The local sizes of the modules' entry points (LocalSize x, y, z).
LocalSizes == {<<1, 1, 1>>, <<8, 4, 2>>}

\* Whether every SPIRV-Cross call of the reflection returns success, or
\* one of them returns an error, and the local size the module declares.
ReflectEnvironments == [spvc : {"ok", "error"}, localSize : LocalSizes]

\* The create info a failed reflection leaves: no field was assigned, each
\* holds what the caller had there.
ReflectFailed ==
    [status |-> "failed",
     threadcount_x |-> Indeterminate, threadcount_y |-> Indeterminate,
     threadcount_z |-> Indeterminate, num_samplers |-> Indeterminate,
     num_storage_textures |-> Indeterminate,
     num_storage_buffers |-> Indeterminate,
     num_readonly_storage_textures |-> Indeterminate,
     num_readonly_storage_buffers |-> Indeterminate,
     num_readwrite_storage_textures |-> Indeterminate,
     num_readwrite_storage_buffers |-> Indeterminate,
     num_uniform_buffers |-> Indeterminate]

SamplerCountNoFallback == Len(ResourceList("sampled_image"))

\* num_texture_samplers: the sampled images, or the separate samplers when
\* there is no sampled image.
SamplerCount ==
    IF Len(ResourceList("sampled_image")) = 0
    THEN Len(ResourceList("separate_sampler"))
    ELSE Len(ResourceList("sampled_image"))

StorageClassReadonlyOnly(descriptor_set_index) ==
    IF descriptor_set_index = 0 \/ descriptor_set_index = 1 THEN "readonly"
    ELSE "invalid"

\* The branch a compute storage resource takes on its descriptor set.
StorageClass(descriptor_set_index) ==
    IF descriptor_set_index = 0 THEN "readonly"
    ELSE IF descriptor_set_index = 1 THEN "readwrite"
    ELSE "invalid"

\* The loop over the storage textures, and the one over the storage
\* buffers, of compute reflection: from entry i on, with the counters so far.
RECURSIVE CountStorage(_, _, _, _)
CountStorage(list, i, readonly, readwrite) ==
    IF i > Len(list)
    THEN [ok |-> TRUE, readonly |-> readonly, readwrite |-> readwrite]
    ELSE IF ~list[i].dec \/ StorageClass(list[i].set) = "invalid"
    THEN [ok |-> FALSE, readonly |-> readonly, readwrite |-> readwrite]
    ELSE IF StorageClass(list[i].set) = "readonly"
    THEN CountStorage(list, i + 1, readonly + 1, readwrite)
    ELSE CountStorage(list, i + 1, readonly, readwrite + 1)

\* Graphics reflection counts the four lists and tests no decoration.
ReflectGraphicsSPIRV ==
    IF env.spvc = "error" THEN ReflectFailed
    ELSE [status |-> "ok",
          threadcount_x |-> Indeterminate, threadcount_y |-> Indeterminate,
          threadcount_z |-> Indeterminate, num_samplers |-> SamplerCount,
          num_storage_textures |-> Len(ResourceList("storage_image")),
          num_storage_buffers |-> Len(ResourceList("storage_buffer")),
          num_readonly_storage_textures |-> Indeterminate,
          num_readonly_storage_buffers |-> Indeterminate,
          num_readwrite_storage_textures |-> Indeterminate,
          num_readwrite_storage_buffers |-> Indeterminate,
          num_uniform_buffers |-> Len(ResourceList("uniform_buffer"))]

\* The thread counts compute reflection reads from the LocalSize execution
\* mode once every list has been counted.
ThreadCounts(info) ==
    [info EXCEPT !.threadcount_x = env.localSize[1],
                 !.threadcount_y = env.localSize[2],
                 !.threadcount_z = env.localSize[3]]

ReflectComputeSPIRVWritesEarly ==
    IF env.spvc = "error" THEN ReflectFailed ELSE
    Bind(CountStorage(ResourceList("storage_image"), 1, 0, 0),
         LAMBDA textures :
    IF ~textures.ok THEN ReflectFailed ELSE
    Bind(CountStorage(ResourceList("storage_buffer"), 1, 0, 0),
         LAMBDA buffers :
    IF ~buffers.ok
    THEN [ThreadCounts(ReflectFailed) EXCEPT
             !.num_readonly_storage_textures = textures.readonly,
             !.num_readwrite_storage_textures = textures.readwrite]
    ELSE ThreadCounts(
         [status |-> "ok", threadcount_x |-> Indeterminate,
          threadcount_y |-> Indeterminate, threadcount_z |-> Indeterminate,
          num_samplers |-> SamplerCount,
          num_storage_textures |-> Indeterminate,
          num_storage_buffers |-> Indeterminate,
          num_readonly_storage_textures |-> textures.readonly,
          num_readonly_storage_buffers |-> buffers.readonly,
          num_readwrite_storage_textures |-> textures.readwrite,
          num_readwrite_storage_buffers |-> buffers.readwrite,
          num_uniform_buffers |-> Len(ResourceList("uniform_buffer"))])))

ReflectComputeSPIRV ==
    IF env.spvc = "error" THEN ReflectFailed ELSE
    Bind(CountStorage(ResourceList("storage_image"), 1, 0, 0),
         LAMBDA textures :
    IF ~textures.ok THEN ReflectFailed ELSE
    Bind(CountStorage(ResourceList("storage_buffer"), 1, 0, 0),
         LAMBDA buffers :
    IF ~buffers.ok THEN ReflectFailed
    ELSE ThreadCounts(
         [status |-> "ok", threadcount_x |-> Indeterminate,
          threadcount_y |-> Indeterminate, threadcount_z |-> Indeterminate,
          num_samplers |-> SamplerCount,
          num_storage_textures |-> Indeterminate,
          num_storage_buffers |-> Indeterminate,
          num_readonly_storage_textures |-> textures.readonly,
          num_readonly_storage_buffers |-> buffers.readonly,
          num_readwrite_storage_textures |-> textures.readwrite,
          num_readwrite_storage_buffers |-> buffers.readwrite,
          num_uniform_buffers |-> Len(ResourceList("uniform_buffer"))])))

InitReflect ==
    /\ rev = "v3"
    /\ shaderStage \in Stages
    /\ resources \in Modules
    /\ pc = "idle"
    /\ msl_bindings = <<>>
    /\ num_textures = 0
    /\ num_buffers = 0
    /\ transpiled = "none"
    /\ op = "none"
    /\ entrypoint = "main"
    /\ env \in ReflectEnvironments
    /\ log = <<>>
    /\ result = NoResult
    /\ objects = NoObjects
    /\ reflection = NoReflection
    /\ loader = NoLoader
    /\ threads = NoThreads
    /\ cli = NoCli
    /\ dxcArgs = NoArgs
    /\ spvc = NoSpvc
    /\ metal = NoMetal

\* The reflection CompileFromSPIRV and CreateShaderFromSPIRV run: compute
\* reflection for a compute shader, graphics reflection otherwise.
ReflectSPIRV ==
    /\ pc = "idle"
    /\ pc' = "returned"
    /\ op' = "ReflectSPIRV"
    /\ reflection' = IF shaderStage = "compute" THEN ReflectComputeSPIRV
                     ELSE ReflectGraphicsSPIRV
    /\ UNCHANGED <<rev, shaderStage, entrypoint, env, log, result>>
    /\ UNCHANGED remapVars
    /\ UNCHANGED <<objects, loader>>
    /\ UNCHANGED <<threads, cli, dxcArgs, spvc, metal>>

NextReflect == ReflectSPIRV

SpecReflect == InitReflect /\ [][NextReflect]_vars

\* The resources of one kind, and those of them on one descriptor set.
OfKind(kind) == {i \in 1..Len(resources) : resources[i].kind = kind}

OnSet(kind, s) == {i \in OfKind(kind) : resources[i].dec /\ resources[i].set = s}

StorageKinds == {"storage_image", "storage_buffer"}

StorageWellFormed ==
    \A i \in 1..Len(resources) :
        resources[i].kind \in StorageKinds =>
            resources[i].dec /\ resources[i].set \in {0, 1}

Reflected == pc = "returned" /\ op = "ReflectSPIRV"

\* C12: compute reflection, when no SPIRV-Cross call fails, succeeds on a
\* module whose storage textures and storage buffers all carry both
\* decorations and a set in {0, 1}; the readonly count of each kind is the
\* number of its resources on set 0 and the readwrite count the number on
\* set 1, so the two add up to the total of the kind; any other storage
\* resource makes the reflection fail.
C12_ComputeReflectionCounts ==
    (Reflected /\ shaderStage = "compute" /\ env.spvc = "ok") =>
        IF StorageWellFormed
        THEN /\ reflection.status = "ok"
             /\ reflection.num_readonly_storage_textures
                    = Cardinality(OnSet("storage_image", 0))
             /\ reflection.num_readwrite_storage_textures
                    = Cardinality(OnSet("storage_image", 1))
             /\ reflection.num_readonly_storage_buffers
                    = Cardinality(OnSet("storage_buffer", 0))
             /\ reflection.num_readwrite_storage_buffers
                    = Cardinality(OnSet("storage_buffer", 1))
             /\ \A kind \in StorageKinds :
                    Cardinality(OnSet(kind, 0)) + Cardinality(OnSet(kind, 1))
                        = Cardinality(OfKind(kind))
        ELSE reflection.status = "failed"

\* A compute module with a readonly and a readwrite storage resource has
\* been reflected.
C12_Witness ==
    /\ Reflected /\ shaderStage = "compute" /\ env.spvc = "ok"
    /\ reflection.status = "ok"
    /\ reflection.num_readonly_storage_textures
       + reflection.num_readonly_storage_buffers > 0
    /\ reflection.num_readwrite_storage_textures
       + reflection.num_readwrite_storage_buffers > 0

\* The descriptor sets the conventions give a kind of resource in a stage.
ConventionalSets(stage, kind) ==
    IF stage = "compute"
    THEN CASE kind \in {"sampled_image", "separate_sampler"} -> {0}
           [] kind \in StorageKinds -> {0, 1}
           [] kind = "uniform_buffer" -> {2}
    ELSE CASE kind = "uniform_buffer" -> {1, 3}
           [] OTHER -> {0, 2}

\* The lists reflection reads: the texture-samplers it counts (separate
\* samplers when there is no sampled image) and the three other kinds.
ReflectedKinds ==
    {IF OfKind("sampled_image") = {} THEN "separate_sampler"
     ELSE "sampled_image",
     "storage_image", "storage_buffer", "uniform_buffer"}

Unconventional(i) ==
    \/ ~resources[i].dec
    \/ resources[i].set \notin ConventionalSets(shaderStage, resources[i].kind)

\* C13: reflection, graphics or compute, fails whenever some reflected
\* resource lacks a set or binding decoration or has a descriptor set
\* outside the conventional values for its kind and stage.
C13_ReflectionValidatesEveryResource ==
    (Reflected /\ \E i \in 1..Len(resources) :
                     resources[i].kind \in ReflectedKinds /\ Unconventional(i))
        => reflection.status = "failed"

\* C14: a reflection that succeeds reports as sampler count the number of
\* sampled images when there is one, and the number of separate samplers
\* when there is none, for graphics and for compute.
C14_SamplerCountFallsBack ==
    (Reflected /\ reflection.status = "ok") =>
        reflection.num_samplers =
            IF OfKind("sampled_image") # {}
            THEN Cardinality(OfKind("sampled_image"))
            ELSE Cardinality(OfKind("separate_sampler"))

\* A module with separate samplers and no sampled image has been reflected
\* for a graphics stage.
C14_Witness ==
    /\ Reflected /\ reflection.status = "ok"
    /\ shaderStage # "compute"
    /\ OfKind("sampled_image") = {}
    /\ reflection.num_samplers > 0

(***************************************************************************)
(* The loader: SDL_ShaderCross_Init, SDL_ShaderCross_Quit and the static   *)
(* library handles and function pointers they keep, with the two format    *)
(* queries that read them.                                                 *)
(***************************************************************************)
Libraries == {"dxcompiler", "dxil", "d3dcompiler", "spirvcross"}

\* Two of the eleven spvc_* entry points CHECK_FUNC loads in v1.
SpvcFuncs == {"spvc_context_create", "spvc_compiler_compile"}

\* The build (_GAMING_XBOX or SDL_PLATFORM_XBOX*, SDL_GPU_SHADERCROSS_STATIC,
\* SDL_GPU_SHADERCROSS_SPIRV, SDL_GPU_SHADERCROSS_DXC) and what the machine
\* has: which libraries SDL_LoadObject finds and which symbols
\* SDL_LoadFunction finds in them.
LoaderEnvironments ==
    [xbox : BOOLEAN, static : BOOLEAN, spirvDefined : BOOLEAN,
     dxc : BOOLEAN, present : SUBSET Libraries,
     DxcCreateInstance : BOOLEAN, D3DCompile : BOOLEAN,
     spvc : SUBSET SpvcFuncs]

\* The statics before Init: every handle and every pointer is NULL.
LoaderStart ==
    [dxcompiler_dll |-> FALSE, SDL_DxcCreateInstance |-> FALSE,
     d3dcompiler_dll |-> FALSE, SDL_D3DCompile |-> FALSE,
     spirvcross_dll |-> FALSE, spvc |-> {},
     loads |-> [l \in Libraries |-> 0],
     unloads |-> [l \in Libraries |-> 0],
     failed |-> {}]

\* SDL_LoadObject: whether the handle is non-NULL goes to the caller; the
\* load or its failure is recorded.
SDL_LoadObject(l, lib) ==
    IF lib \in env.present
    THEN [l EXCEPT !.loads[lib] = @ + 1]
    ELSE [l EXCEPT !.failed = @ \cup {lib}]

SDL_UnloadObject(l, lib) == [l EXCEPT !.unloads[lib] = @ + 1]

InitDxcompilerIgnoresProbe(l) ==
    IF rev = "v3" /\ ~env.xbox THEN l ELSE
    Bind(SDL_LoadObject(l, "dxcompiler"), LAMBDA tried :
    IF "dxcompiler" \notin env.present THEN tried ELSE
    Bind(IF rev = "v3" \/ env.xbox THEN tried
         ELSE SDL_LoadObject(tried, "dxil"), LAMBDA probed :
    Bind(IF rev = "v3" \/ env.xbox \/ "dxil" \notin env.present THEN probed
         ELSE SDL_UnloadObject(probed, "dxil"), LAMBDA kept :
    IF env.DxcCreateInstance
    THEN [kept EXCEPT !.dxcompiler_dll = TRUE,
                      !.SDL_DxcCreateInstance = TRUE]
    ELSE SDL_UnloadObject(kept, "dxcompiler"))))

\* v1 and v2, and the Xbox builds of v3: load the HLSL compiler library,
\* probe the signing library (not on Xbox, not in v3), look up
\* DxcCreateInstance.
InitDxcompiler(l) ==
    IF rev = "v3" /\ ~env.xbox THEN l ELSE
    Bind(SDL_LoadObject(l, "dxcompiler"), LAMBDA tried :
    IF "dxcompiler" \notin env.present THEN tried ELSE
    Bind(IF rev = "v3" \/ env.xbox THEN tried
         ELSE SDL_LoadObject(tried, "dxil"), LAMBDA probed :
    IF rev # "v3" /\ ~env.xbox /\ "dxil" \notin env.present
    THEN SDL_UnloadObject(probed, "dxcompiler") ELSE
    Bind(IF rev = "v3" \/ env.xbox THEN probed
         ELSE SDL_UnloadObject(probed, "dxil"), LAMBDA kept :
    IF env.DxcCreateInstance
    THEN [kept EXCEPT !.dxcompiler_dll = TRUE,
                      !.SDL_DxcCreateInstance = TRUE]
    ELSE SDL_UnloadObject(kept, "dxcompiler"))))

InitD3dcompiler(l) ==
    Bind(SDL_LoadObject(l, "d3dcompiler"), LAMBDA tried :
    IF "d3dcompiler" \notin env.present THEN tried
    ELSE IF env.D3DCompile
    THEN [tried EXCEPT !.d3dcompiler_dll = TRUE, !.SDL_D3DCompile = TRUE]
    ELSE SDL_UnloadObject(tried, "d3dcompiler"))

\* v1 without SDL_GPU_SHADERCROSS_STATIC: CHECK_FUNC keeps every pointer it
\* could load, and the library is unloaded when one is missing.
InitSpirvcross(l) ==
    IF rev # "v1" \/ env.static THEN l ELSE
    Bind(SDL_LoadObject(l, "spirvcross"), LAMBDA tried :
    IF "spirvcross" \notin env.present THEN tried
    ELSE IF env.spvc = SpvcFuncs
    THEN [tried EXCEPT !.spirvcross_dll = TRUE, !.spvc = env.spvc]
    ELSE SDL_UnloadObject([tried EXCEPT !.spvc = env.spvc], "spirvcross"))

SDL_ShaderCross_Init(l) ==
    Bind(InitDxcompiler(l), LAMBDA dxcDone :
    Bind(InitD3dcompiler(dxcDone), LAMBDA d3dDone :
    InitSpirvcross(d3dDone)))

\* v1 unloads SPIRV-Cross under #ifdef SDL_GPU_SHADERCROSS_SPIRV.
QuitSpirvcross(l) ==
    IF rev = "v1" /\ env.spirvDefined /\ ~env.static /\ l.spirvcross_dll
    THEN [SDL_UnloadObject(l, "spirvcross")
             EXCEPT !.spirvcross_dll = FALSE, !.spvc = {}]
    ELSE l

QuitD3dcompiler(l) ==
    IF l.d3dcompiler_dll
    THEN [SDL_UnloadObject(l, "d3dcompiler")
             EXCEPT !.d3dcompiler_dll = FALSE, !.SDL_D3DCompile = FALSE]
    ELSE l

QuitDxcompiler(l) ==
    IF (rev # "v3" \/ env.xbox) /\ l.dxcompiler_dll
    THEN [SDL_UnloadObject(l, "dxcompiler")
             EXCEPT !.dxcompiler_dll = FALSE, !.SDL_DxcCreateInstance = FALSE]
    ELSE l

SDL_ShaderCross_Quit(l) ==
    Bind(QuitSpirvcross(l), LAMBDA spvcDone :
    Bind(QuitD3dcompiler(spvcDone), LAMBDA d3dDone :
    QuitDxcompiler(d3dDone)))

GetSPIRVShaderFormatsWithoutMSL ==
    {"SPIRV"}
    \cup (IF loader.dxcompiler_dll THEN {"DXIL"} ELSE {})
    \cup (IF loader.d3dcompiler_dll THEN {"DXBC"} ELSE {})

GetSPIRVShaderFormats ==
    IF rev = "v3"
    THEN {"SPIRV", "MSL", "DXIL"}
         \cup (IF loader.d3dcompiler_dll THEN {"DXBC"} ELSE {})
    ELSE IF rev = "v1" /\ ~env.static /\ ~loader.spirvcross_dll
    THEN {"SPIRV"}
    ELSE {"SPIRV", "MSL"}
         \cup (IF loader.dxcompiler_dll THEN {"DXIL"} ELSE {})
         \cup (IF loader.d3dcompiler_dll THEN {"DXBC"} ELSE {})

GetHLSLShaderFormats ==
    (IF rev = "v3"
     THEN (IF env.dxc THEN {"DXIL", "DXBC"} ELSE {})
     ELSE (IF loader.dxcompiler_dll THEN {"DXIL", "SPIRV"} ELSE {}))
    \cup (IF loader.d3dcompiler_dll THEN {"DXBC"} ELSE {})

InitLoader ==
    /\ rev \in RouteRevs
    /\ shaderStage = "vertex"
    /\ resources = <<>>
    /\ pc = "idle"
    /\ msl_bindings = <<>>
    /\ num_textures = 0
    /\ num_buffers = 0
    /\ transpiled = "none"
    /\ op = "none"
    /\ entrypoint = "main"
    /\ env \in LoaderEnvironments
    /\ log = <<>>
    /\ result = NoResult
    /\ objects = NoObjects
    /\ reflection = NoReflection
    /\ loader = LoaderStart
    /\ threads = NoThreads
    /\ cli = NoCli
    /\ dxcArgs = NoArgs
    /\ spvc = NoSpvc
    /\ metal = NoMetal

LoaderStep(from, to, name, after) ==
    /\ pc = from
    /\ pc' = to
    /\ op' = name
    /\ loader' = after
    /\ UNCHANGED <<rev, shaderStage, entrypoint, env, log, result>>
    /\ UNCHANGED remapVars
    /\ UNCHANGED <<objects, reflection>>
    /\ UNCHANGED <<threads, cli, dxcArgs, spvc, metal>>

CallInit ==
    LoaderStep("idle", "initialized", "Init", SDL_ShaderCross_Init(loader))

CallQuit ==
    LoaderStep("initialized", "quit", "Quit", SDL_ShaderCross_Quit(loader))

NextLoader ==
    \/ CallInit
    \/ CallQuit

SpecLoader == InitLoader /\ [][NextLoader]_vars

\* Whether SPIRV-Cross can be called: it is linked in (v2, v3, static builds
\* of v1) or its library is loaded.
SpirvCrossUsable == rev # "v1" \/ env.static \/ loader.spirvcross_dll

HlslCompilerLoaded ==
    IF rev = "v3" /\ ~env.xbox THEN env.dxc ELSE loader.dxcompiler_dll

\* C16: GetSPIRVShaderFormats reports DXIL exactly when the HLSL compiler
\* library is currently loaded, and DXBC exactly when the legacy compiler
\* library is currently loaded.
C16_SpirvFormatsFollowLibraries ==
    /\ "DXIL" \in GetSPIRVShaderFormats <=> HlslCompilerLoaded
    /\ "DXBC" \in GetSPIRVShaderFormats <=> loader.d3dcompiler_dll

\* The HLSL compiler can be called: CompileUsingDXC gets past its build
\* and function-pointer tests.
HlslCompilerAvailable ==
    IF rev = "v3"
    THEN env.dxc /\ (env.xbox => loader.SDL_DxcCreateInstance)
    ELSE loader.dxcompiler_dll

\* C17: GetHLSLShaderFormats reports SPIR-V and DXIL exactly when the HLSL
\* compiler is available, DXBC exactly when the legacy compiler library is
\* loaded, and nothing else.
C17_HlslFormatsFollowLibraries ==
    GetHLSLShaderFormats =
        (IF HlslCompilerAvailable THEN {"SPIRV", "DXIL"} ELSE {})
        \cup (IF loader.d3dcompiler_dll THEN {"DXBC"} ELSE {})

\* C18: when Init has loaded the HLSL compiler library and its load of the
\* DXIL-signing library has failed, then after Init the compiler library
\* has been unloaded, its handle is null and neither query reports DXIL;
\* and a signing library that was loaded has been unloaded again when Init
\* returns.
C18_MissingSignerDisablesDxil ==
    pc = "initialized" =>
        /\ (loader.loads["dxcompiler"] > 0 /\ "dxil" \in loader.failed) =>
              /\ ~loader.dxcompiler_dll
              /\ loader.unloads["dxcompiler"] = loader.loads["dxcompiler"]
              /\ "DXIL" \notin GetSPIRVShaderFormats
              /\ "DXIL" \notin GetHLSLShaderFormats
        /\ loader.unloads["dxil"] = loader.loads["dxil"]

\* Init loaded the compiler library and could not load the signing library.
C18_Witness ==
    /\ pc = "initialized"
    /\ loader.loads["dxcompiler"] = 1 /\ "dxil" \in loader.failed
    /\ loader.unloads["dxcompiler"] = 1

\* C19: after Init followed by Quit, whatever libraries and symbols were
\* present, every library that was loaded has been unloaded exactly once
\* and every stored handle and function pointer is null.
C19_InitQuitLeavesNothingLoaded ==
    pc = "quit" =>
        /\ \A lib \in Libraries : loader.unloads[lib] = loader.loads[lib]
        /\ ~loader.dxcompiler_dll /\ ~loader.d3dcompiler_dll
        /\ ~loader.spirvcross_dll
        /\ ~loader.SDL_DxcCreateInstance /\ ~loader.SDL_D3DCompile
        /\ loader.spvc = {}

(***************************************************************************)
(* The format runtime construction from SPIR-V settles on, read off the    *)
(* calls it made.                                                          *)
(***************************************************************************)
TranspileSteps == {i \in 1..Len(log) : log[i].ev = "transpile"}

FirstTranspile == CHOOSE i \in TranspileSteps : \A j \in TranspileSteps : i <= j

\* The format the construction went for: the backend and shader model of
\* its first transpile, SPIR-V when it handed the caller's bytecode to the
\* device untranslated, "none" when it did neither.
ChosenFormat ==
    IF TranspileSteps # {}
    THEN IF log[FirstTranspile].what = "MSL" THEN "MSL"
         ELSE IF log[FirstTranspile].sm = 60 THEN "DXIL"
         ELSE "DXBC"
    ELSE IF \E i \in 1..Len(log) : log[i].ev = "create" /\ log[i].what = "SPIRV"
    THEN "SPIRV"
    ELSE "none"

\* The first format of a priority list the device accepts.
RECURSIVE FirstAccepted(_, _)
FirstAccepted(priority, accepted) ==
    IF priority = <<>> THEN "none"
    ELSE IF Head(priority) \in accepted THEN Head(priority)
    ELSE FirstAccepted(Tail(priority), accepted)

Translatable ==
    IF rev = "v3" /\ ~env.d3dcompile THEN env.formats \ {"DXBC"}
    ELSE env.formats

Threads == {"t1", "t2"}

\* The functions that call a native library.
NativeCalls ==
    {"CompileUsingDXC", "CompileDXBC", "TranspileFromSPIRV", "ReflectSPIRV"}

\* The machines and builds the calls run on: every symbol is found in a
\* library that is present.
CallEnvironments ==
    {e \in LoaderEnvironments :
        e.DxcCreateInstance /\ e.D3DCompile /\ e.spvc = SpvcFuncs
        /\ e.spirvDefined}

IdleThread == [pc |-> "idle", call |-> "none", loaded |-> FALSE,
               outcome |-> "none"]

\* Whether the library behind a call can be called right now: through the
\* loader's pointer, or because the build links it.
NativeLoaded(call) ==
    IF call = "CompileUsingDXC"
    THEN (IF rev = "v3" /\ ~env.xbox THEN env.dxc
          ELSE loader.SDL_DxcCreateInstance)
    ELSE IF call = "CompileDXBC" THEN loader.SDL_D3DCompile
    ELSE IF rev = "v1" /\ ~env.static
    THEN "spvc_context_create" \in loader.spvc
    ELSE TRUE

\* Whether the function tests its pointer (or its build) before the call.
TestsPointer(call) ==
    rev = "v3" /\ call \in {"CompileUsingDXC", "CompileDXBC"}

\* What the first native call of the function comes to: the library runs,
\* the function returns NULL before it, or the call goes through a null
\* function pointer and the process dies or runs whatever is there.
Outcomes(call) ==
    IF NativeLoaded(call) THEN {"library"}
    ELSE IF TestsPointer(call) THEN {"NULL"}
    ELSE {"crash", "wild_call"}

InitCalls ==
    /\ rev \in RouteRevs
    /\ shaderStage = "vertex"
    /\ resources = <<>>
    /\ pc = "idle"
    /\ msl_bindings = <<>>
    /\ num_textures = 0
    /\ num_buffers = 0
    /\ transpiled = "none"
    /\ op = "none"
    /\ entrypoint = "main"
    /\ env \in CallEnvironments
    /\ log = <<>>
    /\ result = NoResult
    /\ objects = NoObjects
    /\ reflection = NoReflection
    /\ loader = LoaderStart
    /\ threads = [t \in Threads |-> IdleThread]
    /\ cli = NoCli
    /\ dxcArgs = NoArgs
    /\ spvc = NoSpvc
    /\ metal = NoMetal

CallFrame ==
    /\ UNCHANGED <<rev, shaderStage, pc, op, entrypoint, env, log, result>>
    /\ UNCHANGED remapVars
    /\ UNCHANGED <<objects, reflection, cli, dxcArgs, spvc, metal>>

\* A thread enters one of the functions.
ThreadBegin(t) ==
    /\ threads[t].pc = "idle"
    /\ \E call \in NativeCalls :
          /\ call = "ReflectSPIRV" => rev = "v3"
          /\ threads' = [threads EXCEPT ![t].pc = "running",
                                        ![t].call = call]
    /\ loader' = loader
    /\ CallFrame

ThreadRunLoadsLazily(t) ==
    /\ threads[t].pc = "running"
    /\ \E outcome \in Outcomes(threads[t].call) :
          threads' = [threads EXCEPT
                         ![t].pc = "returned",
                         ![t].loaded = NativeLoaded(threads[t].call),
                         ![t].outcome = outcome]
    /\ loader' = IF NativeLoaded(threads[t].call) THEN loader
                 ELSE SDL_ShaderCross_Init(loader)
    /\ CallFrame

\* The thread reaches the native call and returns.  None of the functions
\* assigns a static of the loader.
ThreadRun(t) ==
    /\ threads[t].pc = "running"
    /\ \E outcome \in Outcomes(threads[t].call) :
          threads' = [threads EXCEPT
                         ![t].pc = "returned",
                         ![t].loaded = NativeLoaded(threads[t].call),
                         ![t].outcome = outcome]
    /\ loader' = loader
    /\ CallFrame

NextCalls ==
    \/ CallInit
    \/ CallQuit
    \/ \E t \in Threads : ThreadBegin(t)
    \/ \E t \in Threads : ThreadRun(t)

SpecCalls == InitCalls /\ [][NextCalls]_vars

\* A step of a translation or reflection call.
ThreadStep == \E t \in Threads : threads'[t] # threads[t]

\* C21: with calls running on several threads, no step of a translation or
\* reflection call changes the loader's handles and function pointers; the
\* loader changes only in a step of Init or Quit.
C21_CallsLeaveLoaderAlone ==
    [][/\ ThreadStep => loader' = loader
       /\ loader' # loader => op' \in {"Init", "Quit"} /\ pc' # pc]_vars

\* Two calls are in flight after Init and one of them has gone through a
\* pointer Init loaded.
C21_Witness ==
    /\ pc = "initialized"
    /\ loader.SDL_D3DCompile
    /\ threads["t1"].pc = "returned" /\ threads["t1"].call = "CompileDXBC"
    /\ threads["t1"].outcome = "library"
    /\ threads["t2"].pc = "running"

\* The calls that have reached their native call with the library missing.
CalledWhileNotLoaded ==
    {t \in Threads :
        /\ threads[t].pc = "returned"
        /\ threads[t].call \in {"CompileUsingDXC", "CompileDXBC"}
        /\ ~threads[t].loaded}

\* C22: an HLSL compile or legacy compile called while its compiler is not
\* loaded (before Init, with the library missing, after Quit) returns NULL
\* without calling into the missing library.
C22_NotLoadedReturnsNull ==
    \A t \in CalledWhileNotLoaded : threads[t].outcome = "NULL"

(***************************************************************************)
(* The command-line tool: main of the three revisions of cli.c.  The       *)
(* oldest goes with v1 (src/unnamed/part_001 lines 639-1022), the one with *)
(* METALLIB with v2 (src/src/cli.c), the one with JSON reflection with v3  *)
(* (src/unnamed/part_001 lines 82-589).                                    *)
(***************************************************************************)
Destinations ==
    {"DXBC", "DXIL", "MSL", "METALLIB", "SPIRV", "HLSL", "JSON", "unknown"}

\* The exit status of a process killed by SIGSEGV, as the shell reports it.
Killed == 139

\* One invocation: how far the set-up gets (the options parse, the input
\* file loads, the output file opens), the source and destination formats
\* and the stage after options and file names are looked at, whether the
\* shader model was given, what the Metal toolchain does, which backend
\* call of main returns NULL (0: none), and what the build does with an
\* uninitialized size and a null buffer.
CliInputs ==
    [setup : {"ok", "help", "bad_args", "no_file", "no_open"},
     source : {"SPIRV", "HLSL", "unknown"},
     dest : Destinations,
     stage : {"vertex", "compute", "unknown"},
     model : BOOLEAN,
     metal : {"ok", "no_platform", "no_tools", "ir_failed", "lib_failed"},
     fail : 0..2,
     ub : {"crash", "garbage"}]

\* The destinations -d and the output file's extension can name.
KnownDestinations ==
    {"DXBC", "DXIL", "MSL", "SPIRV", "HLSL"}
    \cup (IF rev = "v2" THEN {"METALLIB"} ELSE {})
    \cup (IF rev = "v3" THEN {"JSON"} ELSE {})

\* What main comes to: its exit status, what is in the output file, and
\* the first thing that went wrong.
Exit(code, output, failure) ==
    [exit |-> code, output |-> output, failure |-> failure]

\* SDL_WriteIO(outputIO, buffer, bytecodeSize), or the loop of SDL_WriteU8
\* of the oldest revision, without a test of buffer: after a failed call
\* the buffer is NULL and the size was never assigned.
WriteUnchecked(in, ok) ==
    IF ok THEN Exit(0, "written", "none")
    ELSE IF in.ub = "crash" THEN Exit(Killed, "nothing", "backend")
    ELSE Exit(0, "garbage", "backend")

\* SDL_IOprintf(outputIO, "%s", buffer) without a test of buffer.
PrintUnchecked(ok) ==
    IF ok THEN Exit(0, "written", "none")
    ELSE Exit(0, "null_text", "backend")

\* if (buffer == NULL) result = 1; else write
WriteChecked(ok) ==
    IF ok THEN Exit(0, "written", "none")
    ELSE Exit(1, "nothing", "backend")

\* compile_metallib on the text main left in tmp.metal; the Metal compiler
\* rejects the text of a failed transpile.
CompileMetallib(in, textOk) ==
    IF in.metal = "ir_failed" \/ ~textOk
    THEN Exit(1, "nothing", IF textOk THEN "metal" ELSE "backend")
    ELSE IF in.metal = "lib_failed" THEN Exit(1, "nothing", "metal")
    ELSE Exit(0, "written", "none")

MetallibChecks(in) ==
    IF in.metal = "no_platform" THEN "platform"
    ELSE IF in.metal = "no_tools" THEN "tools"
    ELSE "none"

\* The translation part of the oldest main.
TranslateOldest(in) ==
    IF in.source = "SPIRV"
    THEN IF in.dest \in {"DXBC", "DXIL"} THEN WriteUnchecked(in, in.fail # 1)
         ELSE IF in.dest = "MSL" THEN PrintUnchecked(in.fail # 1)
         ELSE IF in.dest = "HLSL"
         THEN (IF ~in.model THEN Exit(1, "nothing", "model")
               ELSE PrintUnchecked(in.fail # 1))
         ELSE Exit(1, "nothing", "same_format")
    ELSE IF ~in.model THEN Exit(1, "nothing", "model")
    ELSE IF in.dest \in {"DXBC", "DXIL", "SPIRV"}
    THEN WriteUnchecked(in, in.fail # 1)
    ELSE IF in.dest = "MSL"
    THEN (IF in.fail = 1
          THEN (IF in.ub = "crash" THEN Exit(Killed, "nothing", "backend")
                ELSE Exit(0, "null_text", "backend"))
          ELSE PrintUnchecked(in.fail # 2))
    ELSE Exit(1, "nothing", "same_format")

\* The translation part of src/src/cli.c.
TranslateWithMetallib(in) ==
    IF in.dest = "METALLIB" /\ MetallibChecks(in) # "none"
    THEN Exit(1, "nothing", MetallibChecks(in))
    ELSE IF in.source = "SPIRV"
    THEN IF in.dest \in {"DXBC", "DXIL"} THEN WriteUnchecked(in, in.fail # 1)
         ELSE IF in.dest = "MSL" THEN PrintUnchecked(in.fail # 1)
         ELSE IF in.dest = "METALLIB" THEN CompileMetallib(in, in.fail # 1)
         ELSE IF in.dest = "HLSL"
         THEN (IF ~in.model THEN Exit(1, "nothing", "model")
               ELSE PrintUnchecked(in.fail # 1))
         ELSE Exit(1, "nothing", "same_format")
    ELSE IF in.dest \in {"DXBC", "DXIL", "SPIRV"}
    THEN WriteUnchecked(in, in.fail # 1)
    ELSE IF in.dest = "HLSL" /\ ~in.model THEN Exit(1, "nothing", "model")
    ELSE IF in.fail = 1 THEN Exit(1, "nothing", "backend")
    ELSE IF in.dest = "METALLIB" THEN CompileMetallib(in, in.fail # 2)
    ELSE PrintUnchecked(in.fail # 2)

\* The JSON branch of the latest main from HLSL declares a second result
\* inside the case, so result = 1 after a failed reflection sets that one.
ReflectShadowed(ok) ==
    IF ok THEN Exit(0, "written", "none")
    ELSE Exit(0, "nothing", "backend")

\* The translation part of the latest main.
TranslateLatest(in) ==
    IF in.source = "SPIRV"
    THEN IF in.dest = "SPIRV" THEN Exit(1, "nothing", "same_format")
         ELSE WriteChecked(in.fail # 1)
    ELSE IF in.dest \in {"DXBC", "DXIL", "SPIRV"}
    THEN WriteChecked(in.fail # 1)
    ELSE IF in.fail = 1 THEN Exit(1, "nothing", "backend")
    ELSE IF in.dest = "JSON" THEN ReflectShadowed(in.fail # 2)
    ELSE WriteChecked(in.fail # 2)

\* main: the options, the input file, the inferences, the output file,
\* then the translation.
Main(in) ==
    IF in.setup = "help" THEN Exit(0, "help", "none")
    ELSE IF in.setup \in {"bad_args", "no_file"}
    THEN Exit(1, "nothing", in.setup)
    ELSE IF in.source = "unknown" THEN Exit(1, "nothing", "source")
    ELSE IF in.dest \notin KnownDestinations
    THEN Exit(1, "nothing", "destination")
    ELSE IF in.stage = "unknown" /\ (rev # "v1" \/ in.dest # "MSL")
    THEN Exit(1, "nothing", "stage")
    ELSE IF in.setup = "no_open" THEN Exit(1, "nothing", "no_open")
    ELSE IF rev = "v1" THEN TranslateOldest(in)
    ELSE IF rev = "v2" THEN TranslateWithMetallib(in)
    ELSE TranslateLatest(in)

InitCli ==
    /\ rev \in RouteRevs
    /\ shaderStage = "vertex"
    /\ resources = <<>>
    /\ pc = "idle"
    /\ msl_bindings = <<>>
    /\ num_textures = 0
    /\ num_buffers = 0
    /\ transpiled = "none"
    /\ op = "none"
    /\ entrypoint = "main"
    /\ env = [formats |-> {}]
    /\ log = <<>>
    /\ result = NoResult
    /\ objects = NoObjects
    /\ reflection = NoReflection
    /\ loader = NoLoader
    /\ threads = NoThreads
    /\ \E in \in CliInputs : cli = [state |-> "started", in |-> in]
    /\ dxcArgs = NoArgs
    /\ spvc = NoSpvc
    /\ metal = NoMetal

\* The process runs main to its exit.
RunMain ==
    /\ cli.state = "started"
    /\ \E done \in {Main(cli.in)} :
          cli' = [state |-> "exited", in |-> cli.in, exit |-> done.exit,
                  output |-> done.output, failure |-> done.failure]
    /\ UNCHANGED <<rev, shaderStage, pc, op, entrypoint, env, log, result>>
    /\ UNCHANGED remapVars
    /\ UNCHANGED <<objects, reflection, loader, threads, dxcArgs, spvc,
                   metal>>

NextCli == RunMain

SpecCli == InitCli /\ [][NextCli]_vars

\* A run that was asked for a translation (not for the help text) and has
\* exited.
Exited == cli.state = "exited" /\ cli.in.setup # "help"

\* C23: the tool exits with 1 whenever argument parsing, input loading,
\* format or stage inference, a backend step or a SPIR-V-to-SPIR-V request
\* fails, and exits with 0 only when the requested output was produced.
C23_ExitCodeReportsFailure ==
    Exited =>
        /\ cli.failure # "none" => cli.exit = 1
        /\ cli.exit = 0 => cli.output = "written"

(***************************************************************************)
(* Lifetimes in a translation chain: which buffer every call reads, and    *)
(* when that buffer is freed.                                              *)
(***************************************************************************)
\* The steps that free the buffer allocated at step i.
Freed(i) == {j \in 1..Len(log) : log[j].ev = "free" /\ log[j].src = i}

\* The steps that read the buffer allocated at step i: a transpile that
\* parses it, a compile or a device create that is given it, a copy of it.
Readers(i) == {k \in 1..Len(log) : log[k].ev # "free" /\ log[k].buf = i}

\* The buffers of the chain that the next stage reads.
ChainBuffers ==
    {i \in 1..Len(log) :
        log[i].ev = "alloc" /\ log[i].what \in {"spirv", "context", "hlsl_text"}}

\* C24: in every translation chain a buffer or transpile context is freed
\* only after the last read of it: the intermediate SPIR-V after the
\* transpile that parses it, the transpile context after its text and
\* cleansed entrypoint have been copied out or given to the compile or the
\* device create.
C24_FreedAfterLastRead ==
    AnyCalled =>
        \A i \in ChainBuffers :
            \A j \in Freed(i) : \A k \in Readers(i) : k < j

\* A chain from HLSL in which the intermediate SPIR-V was parsed and then
\* freed, and the transpile context was copied out of and then destroyed.
C24_Witness ==
    /\ Called("CompileDXILFromHLSL")
    /\ result.status = "value"
    /\ \E i, c \in ChainBuffers :
          /\ log[i].what = "spirv" /\ log[c].what = "context"
          /\ \E k \in Readers(i) : log[k].ev = "transpile"
          /\ \E k \in Readers(c) : log[k].ev = "alloc"
          /\ Freed(i) # {} /\ Freed(c) # {}

(***************************************************************************)
(* The execution model of the registered bindings.                         *)
(***************************************************************************)
\* The execution model of the entry point of a module of this stage, as a
\* Vulkan-style SPIR-V module declares it.
ModuleExecutionModel(stage) ==
    IF stage = "vertex" THEN "Vertex"
    ELSE IF stage = "fragment" THEN "Fragment"
    ELSE "GLCompute"

\* C29: every MSL resource binding the remapper registers is tagged with the
\* execution model of the shader being transpiled: Vertex for a vertex
\* shader, Fragment for a fragment shader, GLCompute for a compute shader.
C29_BindingsTaggedWithModuleStage ==
    pc = "returned" =>
        \A i \in 1..Len(msl_bindings) :
            msl_bindings[i].stage = ModuleExecutionModel(shaderStage)

(***************************************************************************)
(* The SPIRV-Cross calls of SDL_ShaderCross_INTERNAL_TranspileFromSPIRV,   *)
(* in the order the function makes them, with the local `result` each      *)
(* `if (result < 0)` reads.  The variable spvc holds what the function     *)
(* returned and what became of the context.                                *)
(***************************************************************************)
Backends == {"HLSL", "MSL"}

\* A call whose return value is stored in `result`, and one whose return
\* value is dropped.
Assigned(name) == [call |-> name, assigns |-> TRUE]

Dropped(name) == [call |-> name, assigns |-> FALSE]

\* An entry of a list that fails the decoration or descriptor set test: the
\* function destroys the context and returns there.
Rejected == [call |-> "rejected", assigns |-> FALSE]

\* spvc_context_create .. spvc_compiler_create_compiler_options.
SetupCalls ==
    <<Assigned("spvc_context_create"), Assigned("spvc_context_parse_spirv"),
      Assigned("spvc_context_create_compiler"),
      Assigned("spvc_compiler_create_compiler_options")>>

\* The three spvc_compiler_options_set_uint of the HLSL backend.
OptionCalls(backend) ==
    IF backend = "HLSL"
    THEN [i \in 1..3 |-> Dropped("spvc_compiler_options_set_uint")]
    ELSE <<>>

\* spvc_resources_get_resource_list_for_type before a loop: the readwrite
\* loops walk the list of the readonly loop before them, and from v3 on the
\* texture-sampler loop fetches the separate samplers when there is no
\* sampled image.
PassFetches(pass) ==
    IF ~PassValidates(pass) THEN <<>>
    ELSE <<Assigned("spvc_resources_get_resource_list_for_type")>>
         \o (IF pass \in {"g_ts", "c_ts"} /\ rev = "v3"
                /\ Len(ResourceList("sampled_image")) = 0
             THEN <<Assigned("spvc_resources_get_resource_list_for_type")>>
             ELSE <<>>)

\* The loops whose spvc_compiler_msl_add_resource_binding is written
\* `result = spvc_compiler_msl_add_resource_binding(...)`.
PassStoresResult(pass) == pass \in {"g_ts", "c_ts"}

\* The call one loop iteration makes on entry r.
PassCall(pass, r) ==
    IF PassValidates(pass) /\ ~r.dec THEN <<Rejected>>
    ELSE IF PassValidates(pass) /\ ~PassSetAllowed(pass, r.set) THEN <<Rejected>>
    ELSE IF PassSkips(pass, r.set) THEN <<>>
    ELSE IF PassStoresResult(pass)
    THEN <<Assigned("spvc_compiler_msl_add_resource_binding")>>
    ELSE <<Dropped("spvc_compiler_msl_add_resource_binding")>>

RECURSIVE PassCalls(_, _, _)
PassCalls(pass, list, i) ==
    IF i > Len(list) THEN <<>>
    ELSE PassCall(pass, list[i]) \o PassCalls(pass, list, i + 1)

RECURSIVE RemapCalls(_, _)
RemapCalls(passes, p) ==
    IF p > Len(passes) THEN <<>>
    ELSE PassFetches(passes[p])
         \o PassCalls(passes[p], ResourceList(PassKind(passes[p])), 1)
         \o RemapCalls(passes, p + 1)

\* The remapping block of the MSL backend.
ResourceCalls(backend) ==
    IF backend = "MSL"
    THEN <<Assigned("spvc_compiler_create_shader_resources")>>
         \o RemapCalls(IF shaderStage = "compute" THEN ComputePasses
                       ELSE GraphicsPasses, 1)
    ELSE <<>>

FinishCalls ==
    <<Assigned("spvc_compiler_install_compiler_options"),
      Assigned("spvc_compiler_compile")>>

TranspileCalls(backend) ==
    SetupCalls \o OptionCalls(backend) \o ResourceCalls(backend) \o FinishCalls

\* What the function leaves when it returns at call i.
SpvcReturn(returned, destroyed, failed, made) ==
    [state |-> "returned", transpiled |-> returned, destroyed |-> destroyed,
     failed |-> failed, made |-> made]

\* The function from call i on: `result` is what the last stored return
\* value was, failed the call that returned non-success so far.  Call
\* number failAt returns non-success.
RECURSIVE RunCalls(_, _, _, _, _)
RunCalls(calls, i, failAt, last, failed) ==
    IF i > Len(calls)
    THEN SpvcReturn("context", FALSE, failed, i - 1)
    ELSE IF calls[i].call = "rejected"
    THEN SpvcReturn("NULL", TRUE, failed, i - 1)
    ELSE LET fails == i = failAt
             now == IF calls[i].assigns
                    THEN (IF fails THEN "error" ELSE "success")
                    ELSE last
             seen == IF fails THEN calls[i].call ELSE failed
         IN  IF now = "error"
             THEN SpvcReturn("NULL", i > 1, seen, i)
             ELSE RunCalls(calls, i + 1, failAt, now, seen)

\* Which call fails (0: none), for which backend.
SpvcFaults == [backend : Backends, failAt : 0..MaxFault]

\* The modules of the fault runs: the binding numbers do not change which
\* calls are made, so they are all 0; the HLSL backend lists no resource.
FaultModules(backend) ==
    IF backend = "HLSL" THEN {<<>>}
    ELSE {m \in Modules : \A i \in 1..Len(m) : m[i].binding = 0}

InitSpvc ==
    /\ rev \in RemapRevs
    /\ shaderStage \in Stages
    /\ pc = "idle"
    /\ msl_bindings = <<>>
    /\ num_textures = 0
    /\ num_buffers = 0
    /\ transpiled = "none"
    /\ op = "none"
    /\ entrypoint = "main"
    /\ env \in SpvcFaults
    /\ resources \in FaultModules(env.backend)
    /\ log = <<>>
    /\ result = NoResult
    /\ objects = NoObjects
    /\ reflection = NoReflection
    /\ loader = NoLoader
    /\ threads = NoThreads
    /\ cli = NoCli
    /\ dxcArgs = NoArgs
    /\ spvc = NoSpvc
    /\ metal = NoMetal

TranspileWithFault ==
    /\ pc = "idle"
    /\ pc' = "returned"
    /\ spvc' = RunCalls(TranspileCalls(env.backend), 1, env.failAt,
                        "success", "none")
    /\ UNCHANGED <<rev, shaderStage>>
    /\ UNCHANGED remapVars
    /\ UNCHANGED routeVars
    /\ UNCHANGED <<objects, reflection, loader>>
    /\ UNCHANGED <<threads, cli, dxcArgs, metal>>

NextSpvc == TranspileWithFault

SpecSpvc == InitSpvc /\ [][NextSpvc]_vars

\* The calls the error table of the transpile names.
CheckedCalls ==
    {"spvc_context_create", "spvc_context_parse_spirv",
     "spvc_context_create_compiler", "spvc_compiler_create_compiler_options",
     "spvc_compiler_create_shader_resources",
     "spvc_resources_get_resource_list_for_type",
     "spvc_compiler_msl_add_resource_binding",
     "spvc_compiler_install_compiler_options", "spvc_compiler_compile"}

\* The context exists once spvc_context_create has succeeded.
ContextCreated == spvc.failed # "spvc_context_create"

\* C25: when one of the SPIRV-Cross calls of a transpile (context create,
\* parse, create compiler, create options, resource listing, an
\* add-resource-binding call of any resource kind, install options, compile)
\* has returned non-success, the transpile returns NULL and the context it
\* created is destroyed.
C25_SpvcFailureFailsTranspile ==
    (spvc.state = "returned" /\ spvc.failed \in CheckedCalls) =>
        /\ spvc.transpiled = "NULL"
        /\ ContextCreated => spvc.destroyed

(***************************************************************************)
(* The argument array of SDL_ShaderCross_INTERNAL_CompileUsingDXC: the     *)
(* array args[], argCount, and what IDxcCompiler3::Compile is handed.  The *)
(* variable dxcArgs holds the array when the function has returned.        *)
(***************************************************************************)
\* The profile strings a caller of v1 can pass; v2 and v3 take the stage.
ShaderProfiles == {"vs_6_0", "ps_6_0", "cs_6_0", "vs_5_0"}

\* What a call is given and meets: the include directory (v3), the profile
\* (v1), the spirv flag, whether the build is for Xbox, whether the COM
\* objects can be created and whether the two conversions succeed.
DxcRequests ==
    [includeDir : BOOLEAN, shaderProfile : ShaderProfiles, spirv : BOOLEAN,
     xbox : BOOLEAN, created : BOOLEAN, entryConv : BOOLEAN,
     includeConv : BOOLEAN]

\* SDL_iconv_string("WCHAR_T", "UTF-8", s, ...): the wide string, or NULL.
Utf16(s, converts) == IF converts THEN <<"L", s>> ELSE <<"NULL">>

\* A wide string literal.
Wide(s) == <<"L", s>>

\* LPCWSTR args[] = { L"-E", ..., NULL, ... }: 6 slots, 8 from v3 on.
ArgCapacity == IF rev = "v3" THEN 8 ELSE 6

ArgsStart(entryArg) ==
    [slots |-> [i \in 1..ArgCapacity |->
                   IF i = 1 THEN Wide("-E")
                   ELSE IF i = 2 THEN entryArg ELSE <<"NULL">>],
     argCount |-> 2, overrun |-> FALSE]

\* args[argCount++] = s; a write past the last slot lands outside the array.
PushArg(a, s) ==
    IF a.argCount >= ArgCapacity
    THEN [a EXCEPT !.argCount = a.argCount + 1, !.overrun = TRUE]
    ELSE [a EXCEPT !.slots[a.argCount + 1] = s, !.argCount = a.argCount + 1]

\* args[2] = L"-I"; args[3] = includeDirUtf16; argCount += 2;
SetInclude(a, dir) ==
    [a EXCEPT !.slots[3] = Wide("-I"), !.slots[4] = dir,
              !.argCount = a.argCount + 2]

\* The -T pair: keyed by the stage, in v1 by comparing the profile string.
PushProfile(a, in) ==
    IF rev = "v1"
    THEN IF in.shaderProfile \in {"ps_6_0", "vs_6_0", "cs_6_0"}
         THEN PushArg(PushArg(a, Wide("-T")), Wide(in.shaderProfile))
         ELSE a
    ELSE PushArg(PushArg(a, Wide("-T")), Wide(DxcProfile(shaderStage)))

PushSpirv(a, in) == IF in.spirv THEN PushArg(a, Wide("-spirv")) ELSE a

PushXbox(a, in) ==
    IF in.xbox THEN PushArg(a, Wide("-D__XBOX_DISABLE_PRECOMPILE=1")) ELSE a

\* The -E argument: the literal of v1, the conversion from v2 on.
EntryArg(entry, in) ==
    IF rev = "v1" THEN Wide("main") ELSE Utf16(entry, in.entryConv)

Handed(a) == [state |-> "handed", args |-> a]

NotHanded == [state |-> "returned_null"]

\* The function up to dxcInstance->lpVtbl->Compile(..., args, argCount, ...).
BuildDxcArgs(entry, in) ==
    IF ~in.created THEN NotHanded
    ELSE IF rev = "v3" /\ ~in.entryConv THEN NotHanded
    ELSE IF rev = "v3" /\ in.includeDir /\ ~in.includeConv THEN NotHanded
    ELSE LET start == ArgsStart(EntryArg(entry, in))
             include == IF rev = "v3" /\ in.includeDir
                        THEN SetInclude(start, Utf16("include_dir", in.includeConv))
                        ELSE start
         IN  Handed(PushXbox(PushSpirv(PushProfile(include, in), in), in))

\* The requests a revision can be given: only v3 takes an include
\* directory and only v1 a profile string, in place of the stage; v1 makes
\* no conversion.
RequestOf(in) ==
    /\ rev # "v3" => ~in.includeDir
    /\ ~in.includeDir => in.includeConv
    /\ rev = "v1" => in.entryConv
    /\ rev # "v1" => in.shaderProfile = DxcProfile(shaderStage)
    /\ rev = "v1" => shaderStage = "vertex"

InitArgs ==
    /\ rev \in RouteRevs
    /\ shaderStage \in Stages
    /\ resources = <<>>
    /\ pc = "idle"
    /\ msl_bindings = <<>>
    /\ num_textures = 0
    /\ num_buffers = 0
    /\ transpiled = "none"
    /\ op = "none"
    /\ entrypoint \in EntryNames
    /\ env \in DxcRequests
    /\ RequestOf(env)
    /\ log = <<>>
    /\ result = NoResult
    /\ objects = NoObjects
    /\ reflection = NoReflection
    /\ loader = NoLoader
    /\ threads = NoThreads
    /\ cli = NoCli
    /\ dxcArgs = NoArgs
    /\ spvc = NoSpvc
    /\ metal = NoMetal

CompileWithArgs ==
    /\ pc = "idle"
    /\ pc' = "returned"
    /\ op' = "CompileUsingDXC"
    /\ dxcArgs' = BuildDxcArgs(entrypoint, env)
    /\ UNCHANGED <<rev, shaderStage, entrypoint, env, log, result>>
    /\ UNCHANGED remapVars
    /\ UNCHANGED <<objects, reflection, loader>>
    /\ UNCHANGED <<threads, cli, spvc, metal>>

NextArgs == CompileWithArgs

SpecArgs == InitArgs /\ [][NextArgs]_vars

\* The list IDxcCompiler3::Compile reads: the first argCount slots.
ArgList == SubSeq(dxcArgs.args.slots, 1, dxcArgs.args.argCount)

ArgsHanded == pc = "returned" /\ dxcArgs.state = "handed"

\* Argument s is in the list, followed by v.
HasPair(s, v) ==
    \E i \in 1..(Len(ArgList) - 1) : ArgList[i] = Wide(s) /\ ArgList[i + 1] = v

HasArg(s) == \E i \in 1..Len(ArgList) : ArgList[i] = Wide(s)

\* The stage the caller asks for: v1 names it by the profile.
RequestedProfile ==
    IF rev = "v1" THEN env.shaderProfile ELSE DxcProfile(shaderStage)

\* The revisions take neither defines nor a debug flag: the only -D is the
\* platform's, and -Od is never asked for.
DefineArgs ==
    {i \in 1..Len(ArgList) :
        ArgList[i] \notin {Wide("-E"), Wide("-T"), Wide("-I"), Wide("-spirv"),
                           Wide("-Od")}
        /\ (i > 1 => ArgList[i - 1] \notin {Wide("-E"), Wide("-T"), Wide("-I")})
        /\ ArgList[i] # Wide("-D__XBOX_DISABLE_PRECOMPILE=1")}

WithinCapacity ==
    /\ dxcArgs.args.argCount <= ArgCapacity
    /\ ~dxcArgs.args.overrun

\* C26: the argument list handed to the HLSL compiler carries -E followed by
\* the caller's entrypoint name, -T followed by the 6_0 profile of the stage,
\* -I with the include directory exactly when one is given, -spirv exactly
\* when SPIR-V output is requested, one -D per caller define and -Od exactly
\* when debug is requested, and argCount never exceeds the capacity of args.
C26_DxcArguments ==
    ArgsHanded =>
        /\ HasPair("-E", Wide(entrypoint))
        /\ HasPair("-T", Wide(RequestedProfile))
        /\ RequestedProfile \in {"vs_6_0", "ps_6_0", "cs_6_0"}
        /\ HasArg("-I") <=> env.includeDir
        /\ env.includeDir => HasPair("-I", Wide("include_dir"))
        /\ HasArg("-spirv") <=> env.spirv
        /\ DefineArgs = {}
        /\ ~HasArg("-Od")
        /\ WithinCapacity

(***************************************************************************)
(* The stored function pointers against the libraries they point into.     *)
(***************************************************************************)
\* The library is loaded now: SDL_LoadObject has returned it and
\* SDL_UnloadObject has not been called on it since.
StillLoaded(lib) == loader.loads[lib] > loader.unloads[lib]

\* C27: in every loader state (before Init, after Init with any libraries
\* or symbols missing, after Quit) a stored function pointer obtained from a
\* native library is non-null only while the handle of that library is
\* non-null and the library is still loaded.
C27_PointersOnlyIntoLoadedLibraries ==
    /\ loader.SDL_DxcCreateInstance =>
          loader.dxcompiler_dll /\ StillLoaded("dxcompiler")
    /\ loader.SDL_D3DCompile =>
          loader.d3dcompiler_dll /\ StillLoaded("d3dcompiler")
    /\ loader.spvc # {} =>
          loader.spirvcross_dll /\ StillLoaded("spirvcross")

(***************************************************************************)
(* What a failed reflection leaves in the caller's create info.            *)
(***************************************************************************)
OutputFields ==
    {"threadcount_x", "threadcount_y", "threadcount_z", "num_samplers",
     "num_storage_textures", "num_storage_buffers",
     "num_readonly_storage_textures", "num_readonly_storage_buffers",
     "num_readwrite_storage_textures", "num_readwrite_storage_buffers",
     "num_uniform_buffers"}

\* The fields the reflection has assigned.
Written == {f \in OutputFields : reflection[f] # Indeterminate}

\* C28: when graphics or compute reflection fails at any step it returns
\* false and has assigned no field of the caller's create info (resource
\* counts and thread counts); fields are assigned only on the path that
\* returns true.
C28_FailedReflectionWritesNothing ==
    Reflected =>
        /\ reflection.status \in {"ok", "failed"}
        /\ reflection.status = "failed" => Written = {}
        /\ Written # {} => reflection.status = "ok"

\* Compute reflection has counted a readwrite storage texture and then
\* failed on a storage buffer of descriptor set 2.
C28_Witness ==
    /\ Reflected /\ reflection.status = "failed"
    /\ shaderStage = "compute" /\ env.spvc = "ok"
    /\ OnSet("storage_image", 1) # {}
    /\ OnSet("storage_buffer", 2) # {}
    /\ \A i \in OfKind("storage_image") :
          resources[i].dec /\ resources[i].set \in {0, 1}

(***************************************************************************)
(* Two runs of the command-line tool with a METALLIB destination in one    *)
(* working directory: the files tmp.metal and tmp.ir main and              *)
(* compile_metallib share, and each run's position.  The variable metal    *)
(* holds the directory and the two runs.                                   *)
(***************************************************************************)
Invocations == {"run1", "run2"}

\* A path of the working directory with no file.
NoFile == [exists |-> FALSE, inode |-> "none", text |-> <<>>]

\* A run before its METALLIB case: nothing opened, compiled or linked.
NotRun == <<"not_run">>

RunStart ==
    [at |-> "start", tempFileIO |-> "none", compiled |-> NotRun,
     linked |-> NotRun, exitcode |-> 0]

\* What a tool reads from a path that has no file.
Missing == <<"missing">>

\* The MSL text a run transpiles.
TextOf(run) == <<run>>

\* SDL_IOFromFile("tmp.metal", "w"): an existing file is truncated, a
\* missing one is created as a new file of this run.
OpenTemp(d, run) ==
    IF d.tmp_metal.exists
    THEN [d EXCEPT !.tmp_metal.text = <<>>,
                   !.run[run].tempFileIO = d.tmp_metal.inode,
                   !.run[run].at = "opened"]
    ELSE [d EXCEPT !.tmp_metal = [exists |-> TRUE, inode |-> run, text |-> <<>>],
                   !.run[run].tempFileIO = run,
                   !.run[run].at = "opened"]

\* SDL_IOprintf(tempFileIO, "%s", buffer); SDL_CloseIO(tempFileIO): the text
\* goes to the file the stream was opened on, which the path may no longer
\* name.
PrintTemp(d, run) ==
    IF d.tmp_metal.exists /\ d.tmp_metal.inode = d.run[run].tempFileIO
    THEN [d EXCEPT !.tmp_metal.text = TextOf(run), !.run[run].at = "written"]
    ELSE [d EXCEPT !.run[run].at = "written"]

\* metal -c tmp.metal -o tmp.ir, waited for.
CompileToIR(d, run) ==
    IF d.tmp_metal.exists
    THEN [d EXCEPT !.tmp_ir = [exists |-> TRUE, inode |-> run,
                               text |-> d.tmp_metal.text],
                   !.run[run].compiled = d.tmp_metal.text,
                   !.run[run].exitcode = 0,
                   !.run[run].at = "compiled"]
    ELSE [d EXCEPT !.run[run].compiled = Missing,
                   !.run[run].exitcode = 1,
                   !.run[run].at = "compiled"]

\* SDL_RemovePath("tmp.metal"); if (exitcode != 0) return exitcode;
RemoveTemp(d, run) ==
    [d EXCEPT !.tmp_metal = NoFile,
              !.run[run].at = IF d.run[run].exitcode # 0 THEN "failed"
                              ELSE "removed"]

\* metallib tmp.ir -o outputFilename, waited for.
CompileToMetallib(d, run) ==
    IF d.tmp_ir.exists
    THEN [d EXCEPT !.run[run].linked = d.tmp_ir.text,
                   !.run[run].exitcode = 0,
                   !.run[run].at = "linked"]
    ELSE [d EXCEPT !.run[run].linked = Missing,
                   !.run[run].exitcode = 1,
                   !.run[run].at = "linked"]

\* SDL_RemovePath("tmp.ir"); if (exitcode != 0) return exitcode; return 0;
RemoveIR(d, run) ==
    [d EXCEPT !.tmp_ir = NoFile,
              !.run[run].at = IF d.run[run].exitcode # 0 THEN "failed"
                              ELSE "done"]

\* The runs that take part: one alone, or both at once.
Started == {{"run1"}, Invocations}

InitMetal ==
    /\ rev = "v2"
    /\ shaderStage = "vertex"
    /\ resources = <<>>
    /\ pc = "idle"
    /\ msl_bindings = <<>>
    /\ num_textures = 0
    /\ num_buffers = 0
    /\ transpiled = "none"
    /\ op = "none"
    /\ entrypoint = "main"
    /\ env \in [started : Started]
    /\ log = <<>>
    /\ result = NoResult
    /\ objects = NoObjects
    /\ reflection = NoReflection
    /\ loader = NoLoader
    /\ threads = NoThreads
    /\ cli = NoCli
    /\ dxcArgs = NoArgs
    /\ spvc = NoSpvc
    /\ metal = [state |-> "running", tmp_metal |-> NoFile, tmp_ir |-> NoFile,
                run |-> [r \in Invocations |-> RunStart]]

MetalStep(run, from, after) ==
    /\ metal # NoMetal
    /\ run \in env.started
    /\ metal.run[run].at = from
    /\ metal' = after
    /\ UNCHANGED <<rev, shaderStage, pc>>
    /\ UNCHANGED remapVars
    /\ UNCHANGED routeVars
    /\ UNCHANGED <<objects, reflection, loader>>
    /\ UNCHANGED <<threads, cli, dxcArgs, spvc>>

RunOpenTemp(run) == MetalStep(run, "start", OpenTemp(metal, run))

RunPrintTemp(run) == MetalStep(run, "opened", PrintTemp(metal, run))

RunCompileToIR(run) == MetalStep(run, "written", CompileToIR(metal, run))

RunRemoveTemp(run) == MetalStep(run, "compiled", RemoveTemp(metal, run))

RunCompileToMetallib(run) ==
    MetalStep(run, "removed", CompileToMetallib(metal, run))

RunRemoveIR(run) == MetalStep(run, "linked", RemoveIR(metal, run))

NextMetal ==
    \/ \E run \in Invocations : RunOpenTemp(run)
    \/ \E run \in Invocations : RunPrintTemp(run)
    \/ \E run \in Invocations : RunCompileToIR(run)
    \/ \E run \in Invocations : RunRemoveTemp(run)
    \/ \E run \in Invocations : RunCompileToMetallib(run)
    \/ \E run \in Invocations : RunRemoveIR(run)

SpecMetal == InitMetal /\ [][NextMetal]_vars

\* The run's Metal compile, and its metallib step, have run.
HasCompiled(run) == metal.run[run].compiled # NotRun

HasLinked(run) == metal.run[run].linked # NotRun

\* C30: two invocations that target METALLIB and run concurrently in the
\* same working directory do not interfere: each Metal compile reads the
\* MSL text its own invocation wrote, and each metallib step reads the
\* intermediate file its own invocation produced, which the other has
\* neither removed nor overwritten.
C30_ConcurrentMetallibRunsDoNotInterfere ==
    metal # NoMetal =>
        \A run \in Invocations :
            /\ HasCompiled(run) => metal.run[run].compiled = TextOf(run)
            /\ HasLinked(run) => metal.run[run].linked = TextOf(run)

====
